---- MODULE Spec2Model ----
(***************************************************************************)
(* A model of the dataset-preparation scripts of VIGIL-ReID: the dataset   *)
(* splitter, the folder-ID normalizers and the per-identity image renamer  *)
(* with its rollback.  Names are sequences of one-character strings, so    *)
(* that parsing (int, isdigit, split, re.findall) and formatting (str,     *)
(* f-strings) are computed and not assumed.                                *)
(***************************************************************************)
EXTENDS Integers, Sequences, FiniteSets, TLC

VARIABLES
    \* ---- dataset splitter (s3_split_dataset_fliter_single_image.py)
    ids_tree,        \* the source tree: folder name -> number of image files
    train_ratio,     \* the three ratios, in percent
    query_ratio,
    gallery_ratio,
    seed,
    runs,            \* completed calls of split_dataset_by_image_count
    outcome,         \* how the last call ended: idle, error, raised, returned
    train_ids,       \* info records of the identities given to train
    remaining_ids,   \* info records of the query/gallery pool
    copied,          \* the copies performed, in order: [folder, img, dst]
    stats,           \* the stats dictionary of the last call
    moved_back,      \* whether the overshoot correction moved an identity
    first_copied,    \* the copies of the first call, kept for comparison
    targets,         \* the train, query and gallery directories: whether they
                     \* exist and the files each holds
    \* ---- folder-ID normalizers (s01_rename_folders_*.py, try.py)
    script,          \* the normalizer that is called
    dry_run,
    platform,        \* the operating system os.rename runs on
    empty_dirs,      \* the folders (by original name) that hold nothing
    locked,          \* the folders (by original name) the system refuses to move
    dir0,            \* the directory before the call: name -> folder
    dir,             \* the directory: name -> folder (its original name)
    pc,              \* the position of the call
    idx,             \* the index of the loop the call is in
    rename_operations, \* the planned renames
    temp_mapping,    \* the renames whose first phase succeeded
    skipped_folders,
    counts,          \* the success and failure counters of the call
    oslog,           \* the os.rename calls made, in order
    offset,          \* the offset argument of rename_folders_with_offset
    sort_by,         \* the sort_by argument of rename_folders_sorted_sequential
    folder_mapping,  \* its mapping from folder name to new ID
    prefix_to_remove, \* the prefix argument (prefix_to_remove, prefix_pattern)
    report,          \* the per-file lines the image scripts print, by folder
    preview,         \* the renames the preview step of cows1's __main__ showed
    \* ---- training entry point (train.py)
    args,            \* the parsed command line
    cfg,             \* the configuration node
    cfg_pre,         \* the configuration node as clean_cfg received it
    frozen,          \* whether cfg.freeze() has been called
    tpc,             \* the position of main
    calls,           \* the steps of main made so far, in order
    \* ---- organizer (s0_orgnize_image_IDs.py)
    metadata,        \* the rows of metadata.csv: [identity, path, dataset]
    target_species,
    source_files,    \* the relative paths that exist under base_image_dir
    unreadable,      \* the source files whose copy raises
    output,          \* output_dir: identity -> filename -> source path
    org,             \* position, row index and counters of the organizer
    \* ---- experiment launcher (s4_run_experiments.py)
    child,           \* how the child process ends
    lpc,             \* the position of run_experiment
    printed,         \* the banners printed so far
    exit_code,       \* the launcher's exit code
    settings,        \* the configuration variables of the launcher
    launched         \* the command and the output directory build_command made

splitVars == <<ids_tree, train_ratio, query_ratio, gallery_ratio, seed, runs,
               outcome, train_ids, remaining_ids, copied, stats, moved_back,
               first_copied, targets>>

renameVars == <<script, dry_run, platform, empty_dirs, locked, dir0, dir, pc, idx,
                rename_operations, temp_mapping, skipped_folders, counts, oslog,
                offset, sort_by, folder_mapping, prefix_to_remove, report,
                preview>>

trainVars == <<args, cfg, cfg_pre, frozen, tpc, calls>>

orgVars == <<metadata, target_species, source_files, unreadable, output, org>>

launchVars == <<child, lpc, printed, exit_code, settings, launched>>

appVars == <<trainVars, orgVars, launchVars>>

vars == <<splitVars, renameVars, appVars>>

\* the entry point's variables while a script is modelled
TrainIdle ==
    /\ args = <<>>
    /\ cfg = <<>>
    /\ cfg_pre = <<>>
    /\ frozen = FALSE
    /\ tpc = "idle"
    /\ calls = <<>>

\* the organizer's variables while another script is modelled
OrgIdle ==
    /\ metadata = <<>>
    /\ target_species = <<>>
    /\ source_files = {}
    /\ unreadable = {}
    /\ output = <<>>
    /\ org = <<>>

\* the launcher's variables while another script is modelled
LaunchIdle ==
    /\ child = [kind |-> "none", returncode |-> 0]
    /\ lpc = "idle"
    /\ printed = <<>>
    /\ exit_code = 0
    /\ settings = <<>>
    /\ launched = <<>>

AppIdle == TrainIdle /\ OrgIdle /\ LaunchIdle

----------------------------------------------------------------------------
(* Bounds of the model *)

MaxIds == 3          \* folders in a source tree
MaxImages == 3       \* image files in one identity folder
MaxSeed == 1         \* seeds 0..MaxSeed
MaxFolders == 3      \* folders in a directory given to a normalizer

----------------------------------------------------------------------------
(* Strings *)

Digits == {"0", "1", "2", "3", "4", "5", "6", "7", "8", "9"}

DigitVal(c) ==
    CASE c = "0" -> 0 [] c = "1" -> 1 [] c = "2" -> 2 [] c = "3" -> 3
      [] c = "4" -> 4 [] c = "5" -> 5 [] c = "6" -> 6 [] c = "7" -> 7
      [] c = "8" -> 8 [] c = "9" -> 9

DigitChar(d) ==
    CASE d = 0 -> "0" [] d = 1 -> "1" [] d = 2 -> "2" [] d = 3 -> "3"
      [] d = 4 -> "4" [] d = 5 -> "5" [] d = 6 -> "6" [] d = 7 -> "7"
      [] d = 8 -> "8" [] d = 9 -> "9"

\* str.isdigit()
IsDigitStr(s) == Len(s) > 0 /\ \A i \in 1..Len(s) : s[i] \in Digits

\* int(s) of a digit string
RECURSIVE ParseInt(_)
ParseInt(s) ==
    IF Len(s) = 0 THEN 0
    ELSE ParseInt(SubSeq(s, 1, Len(s) - 1)) * 10 + DigitVal(s[Len(s)])

\* str(n)
RECURSIVE IntToStr(_)
IntToStr(n) ==
    IF n < 0 THEN <<"-">> \o IntToStr(-n)
    ELSE IF n < 10 THEN <<DigitChar(n)>>
    ELSE IntToStr(n \div 10) \o <<DigitChar(n % 10)>>

\* int(x) of a quotient a/b: truncation toward zero
TruncDiv(a, b) ==
    IF (a >= 0) = (b > 0)
    THEN (IF a >= 0 THEN a ELSE -a) \div (IF b > 0 THEN b ELSE -b)
    ELSE -((IF a >= 0 THEN a ELSE -a) \div (IF b > 0 THEN b ELSE -b))

Max(a, b) == IF a >= b THEN a ELSE b

\* the orders in which a directory listing can present the names of S
Listings(S) ==
    {l \in [1..Cardinality(S) -> S] : \A x \in S : \E i \in DOMAIN l : l[i] = x}

----------------------------------------------------------------------------
(* sorted(): a stable sort of [k, v] records by key k, keys being tuples of *)
(* integers compared as Python compares tuples                              *)

RECURSIVE LexLess(_, _)
LexLess(a, b) ==
    IF Len(b) = 0 THEN FALSE
    ELSE IF Len(a) = 0 THEN TRUE
    ELSE IF a[1] # b[1] THEN a[1] < b[1]
    ELSE LexLess(Tail(a), Tail(b))

RECURSIVE InsertStable(_, _)
InsertStable(sorted, e) ==
    IF Len(sorted) = 0 THEN <<e>>
    ELSE IF LexLess(e.k, sorted[Len(sorted)].k)
         THEN Append(InsertStable(SubSeq(sorted, 1, Len(sorted) - 1), e),
                     sorted[Len(sorted)])
         ELSE Append(sorted, e)

RECURSIVE SortByKey(_)
SortByKey(s) ==
    IF Len(s) = 0 THEN <<>>
    ELSE InsertStable(SortByKey(SubSeq(s, 1, Len(s) - 1)), s[Len(s)])

----------------------------------------------------------------------------
(* random: a deterministic generator, a function of the seed and of the     *)
(* calls made so far                                                        *)

RngMod == 31

SeedRng(s) == (s * 7 + 1) % RngMod

RngNext(r) == (r * 5 + 3) % RngMod

RandBelow(r, n) == r % n

\* random.shuffle: for i = len-1 down to 1, swap x[i] with x[randbelow(i+1)]
RECURSIVE ShuffleFrom(_, _, _)
ShuffleFrom(x, r, i) ==
    IF i < 2 THEN [list |-> x, rng |-> r]
    ELSE LET j == RandBelow(r, i) + 1
         IN  ShuffleFrom([x EXCEPT ![i] = x[j], ![j] = x[i]], RngNext(r), i - 1)

Shuffle(x, r) == ShuffleFrom(x, r, Len(x))

----------------------------------------------------------------------------
(* The directory a normalizer works on, and os.rename                       *)

StartsWith(s, p) == Len(s) >= Len(p) /\ SubSeq(s, 1, Len(p)) = p

\* s.replace(pat, "")
RECURSIVE RemoveAll(_, _)
RemoveAll(s, pat) ==
    IF Len(s) = 0 THEN <<>>
    ELSE IF StartsWith(s, pat) THEN RemoveAll(SubSeq(s, Len(pat) + 1, Len(s)), pat)
    ELSE <<Head(s)>> \o RemoveAll(Tail(s), pat)

Platforms == {"posix", "windows"}

\* os.rename(src, dst) of a directory in directory d: it fails when src is
\* missing or cannot be moved; when dst exists it fails on Windows and for a
\* non-empty dst, and on POSIX it replaces an empty dst
OsRename(d, src, dst) ==
    IF src \notin DOMAIN d \/ d[src] \in locked
    THEN [ok |-> FALSE, dir |-> d]
    ELSE IF src = dst THEN [ok |-> TRUE, dir |-> d]
    ELSE IF dst \in DOMAIN d /\ ~(platform = "posix" /\ d[dst] \in empty_dirs)
    THEN [ok |-> FALSE, dir |-> d]
    ELSE [ok |-> TRUE,
          dir |-> [n \in (DOMAIN d \ {src}) \cup {dst} |->
                      IF n = dst THEN d[src] ELSE d[n]]]

\* the value of an argument that is not given
None == <<"None">>

NoCounts ==
    [phase1_success |-> 0, phase1_failed |-> 0,
     phase2_success |-> 0, phase2_failed |-> 0,
     success_count |-> 0, failed_count |-> 0]

\* the normalizers' variables while another script is modelled
RenameIdle ==
    /\ script = "none"
    /\ dry_run = TRUE
    /\ platform = "posix"
    /\ empty_dirs = {}
    /\ locked = {}
    /\ dir0 = <<>>
    /\ dir = <<>>
    /\ pc = "idle"
    /\ idx = 0
    /\ rename_operations = <<>>
    /\ temp_mapping = <<>>
    /\ skipped_folders = <<>>
    /\ counts = NoCounts
    /\ oslog = <<>>
    /\ offset = 0
    /\ sort_by = "number"
    /\ folder_mapping = <<>>
    /\ prefix_to_remove = None
    /\ report = <<>>
    /\ preview = <<>>

\* a directory of at most MaxFolders folders named from `names`, each folder
\* being the one originally under its name; at most one folder is empty and
\* at most one cannot be moved
RenameInit(names) ==
    /\ dry_run \in BOOLEAN
    /\ platform \in Platforms
    /\ \E S \in {T \in SUBSET names : Cardinality(T) <= MaxFolders} :
          /\ dir0 = [n \in S |-> n]
          /\ dir = [n \in S |-> n]
          /\ empty_dirs \in {E \in SUBSET S : Cardinality(E) <= 1}
          /\ locked \in {L \in SUBSET S : Cardinality(L) <= 1}
    /\ pc = "start"
    /\ idx = 0
    /\ rename_operations = <<>>
    /\ temp_mapping = <<>>
    /\ skipped_folders = <<>>
    /\ counts = NoCounts
    /\ oslog = <<>>
    /\ folder_mapping = <<>>
    /\ report = <<>>
    /\ preview = <<>>

\* what no step of a normalizer changes
InputsFrame ==
    UNCHANGED <<splitVars, script, dry_run, platform, empty_dirs, locked, dir0,
                offset, sort_by, prefix_to_remove, report, preview, appVars>>

RenameFrame == InputsFrame /\ UNCHANGED folder_mapping

----------------------------------------------------------------------------
(* The dataset splitter: split_dataset_by_image_count                       *)

\* names a folder of the source directory can have
FolderNames == {<<"0">>, <<"1">>, <<"0", "1">>, <<"x">>}

\* (train, query, gallery) ratio settings, in percent
RatioSettings ==
    { [t |-> 60, q |-> 15, g |-> 25],
      [t |-> 80, q |-> 8, g |-> 12],
      [t |-> 60, q |-> 40, g |-> 0],
      [t |-> 60, q |-> -10, g |-> 50],
      [t |-> 60, q |-> 0, g |-> 0] }

\* source trees: the splitter never looks into a folder whose name is not
\* numeric, so such a folder is given no image
SourceTrees ==
    UNION { {t \in [S -> 0..MaxImages] : \A f \in S : ~IsDigitStr(f) => t[f] = 0} :
            S \in {T \in SUBSET FolderNames : Cardinality(T) <= MaxIds} }

\* id_folders: the numeric folders of the listing, sorted by int(name)
IdFolders(listing) ==
    LET numeric == SelectSeq(listing, IsDigitStr)
        sorted == SortByKey([i \in 1..Len(numeric) |->
                               [k |-> <<ParseInt(numeric[i])>>, v |-> numeric[i]]])
    IN  [i \in 1..Len(sorted) |-> sorted[i].v]

\* the info dictionary of each folder, in id_folders order
IdInfo(id_folders) ==
    [i \in 1..Len(id_folders) |->
        [id |-> ParseInt(id_folders[i]),
         folder |-> id_folders[i],
         count |-> ids_tree[id_folders[i]]]]

IsSingle(info) == info.count = 1

SingleImageIds(infos) == SelectSeq(infos, IsSingle)

MultiImageIds(infos) == SelectSeq(infos, LAMBDA info : ~IsSingle(info))

RECURSIVE SumCounts(_)
SumCounts(infos) ==
    IF Len(infos) = 0 THEN 0 ELSE Head(infos).count + SumCounts(Tail(infos))

\* int(total_images * train_ratio)
TargetTrain(total_images) == TruncDiv(total_images * train_ratio, 100)

\* the loop that fills train from the shuffled multi-image identities
RECURSIVE GreedyFill(_, _, _, _, _)
GreedyFill(multi, train, cnt, rem, target) ==
    IF Len(multi) = 0
    THEN [train_ids |-> train, train_image_count |-> cnt, remaining_ids |-> rem]
    ELSE IF cnt < target
         THEN GreedyFill(Tail(multi), Append(train, Head(multi)),
                         cnt + Head(multi).count, rem, target)
         ELSE GreedyFill(Tail(multi), train, cnt, Append(rem, Head(multi)), target)

\* a variant of the correction without its two guards on the last identity
OvershootUnguarded(fill, n_single, target) ==
    LET n == Len(fill.train_ids)
        last_id == fill.train_ids[n]
        overshoot == fill.train_image_count - target
    IN  IF /\ fill.train_image_count > target
           /\ n > 0
           /\ 2 * overshoot > last_id.count
        THEN [train_ids |-> SubSeq(fill.train_ids, 1, n - 1),
              train_image_count |-> fill.train_image_count - last_id.count,
              remaining_ids |-> <<last_id>> \o fill.remaining_ids]
        ELSE fill

\* a variant of the correction that moves the last identity back on any
\* overshoot, without asking whether the overshoot is significant
OvershootAlways(fill, n_single, target) ==
    LET n == Len(fill.train_ids)
        last_id == fill.train_ids[n]
    IN  IF /\ fill.train_image_count > target
           /\ n > n_single + 1
           /\ last_id.count > 1
        THEN [train_ids |-> SubSeq(fill.train_ids, 1, n - 1),
              train_image_count |-> fill.train_image_count - last_id.count,
              remaining_ids |-> <<last_id>> \o fill.remaining_ids]
        ELSE fill

\* the overshoot correction applied to the result of the fill
Overshoot(fill, n_single, target) ==
    LET n == Len(fill.train_ids)
        last_id == fill.train_ids[n]
        overshoot == fill.train_image_count - target
    IN  IF /\ fill.train_image_count > target
           /\ n > n_single + 1
           /\ last_id.count > 1
           /\ 2 * overshoot > last_id.count
        THEN [train_ids |-> SubSeq(fill.train_ids, 1, n - 1),
              train_image_count |-> fill.train_image_count - last_id.count,
              remaining_ids |-> <<last_id>> \o fill.remaining_ids]
        ELSE fill

\* train_ids and remaining_ids as the call computes them from a listing
SelectIds(listing) ==
    LET infos == IdInfo(IdFolders(listing))
        single == SingleImageIds(infos)
        total_images == SumCounts(infos)
        shuffled == Shuffle(MultiImageIds(infos), SeedRng(seed))
        fill == GreedyFill(shuffled.list, single, SumCounts(single), <<>>,
                           TargetTrain(total_images))
        adjusted == Overshoot(fill, Len(single), TargetTrain(total_images))
    IN  [train_ids |-> adjusted.train_ids,
         remaining_ids |-> adjusted.remaining_ids,
         moved_back |-> adjusted # fill,
         total_images |-> total_images,
         n_single |-> Len(single),
         rng |-> shuffled.rng]

CopiesTo(folder, images, dst) ==
    [i \in 1..Len(images) |-> [folder |-> folder, img |-> images[i], dst |-> dst]]

\* the copies of the training loop: every image of every train identity
RECURSIVE TrainCopies(_)
TrainCopies(ids) ==
    IF Len(ids) = 0 THEN <<>>
    ELSE CopiesTo(Head(ids).folder, [i \in 1..Head(ids).count |-> i], "train")
         \o TrainCopies(Tail(ids))

\* a variant without the reduction that leaves gallery an image
NumQueryUnclamped(total) ==
    Max(1, TruncDiv(total * query_ratio, query_ratio + gallery_ratio))

\* num_query for an identity of `total` images
NumQuery(total) ==
    LET nq == Max(1, TruncDiv(total * query_ratio, query_ratio + gallery_ratio))
    IN  IF total >= 2 /\ nq >= total THEN total - 1 ELSE nq

\* images[:num_query]
QueryImages(images, num_query) ==
    SubSeq(images, 1, IF num_query < Len(images) THEN num_query ELSE Len(images))

\* a variant slicing one position early: images[num_query - 1:]
GalleryImagesOverlap(images, num_query) == SubSeq(images, num_query, Len(images))

\* images[num_query:]
GalleryImages(images, num_query) == SubSeq(images, num_query + 1, Len(images))

\* the copies of the query/gallery loop, the generator being threaded through
RECURSIVE PoolCopies(_, _)
PoolCopies(ids, r) ==
    IF Len(ids) = 0 THEN <<>>
    ELSE LET info == Head(ids)
             images == Shuffle([i \in 1..info.count |-> i], r)
             total == info.count
             num_query == NumQuery(total)
             query_images == QueryImages(images.list, num_query)
             gallery_images == GalleryImages(images.list, num_query)
         IN  CopiesTo(info.folder, query_images, "query")
             \o CopiesTo(info.folder, gallery_images, "gallery")
             \o PoolCopies(Tail(ids), images.rng)

CountTo(copies, dst) == Cardinality({i \in 1..Len(copies) : copies[i].dst = dst})

\* the stats dictionary after the given identities and copies were processed
StatsOf(train, pool, copies) ==
    [train_ids |-> {train[i].id : i \in 1..Len(train)},
     single_image_ids |-> Cardinality({i \in 1..Len(train) : train[i].count = 1}),
     query_ids |-> {pool[i].id : i \in 1..Len(pool)},
     gallery_ids |-> {pool[i].id : i \in 1..Len(pool)},
     train_images |-> CountTo(copies, "train"),
     query_images |-> CountTo(copies, "query"),
     gallery_images |-> CountTo(copies, "gallery")]

NoStats == StatsOf(<<>>, <<>>, <<>>)

\* the three target directories before the first call: not yet created
NoTargets == [exists |-> FALSE, train |-> {}, query |-> {}, gallery |-> {}]

\* the file a copy leaves in its target directory; its name begins with the
\* identity of the folder it comes from
CopiedFile(c) == [id |-> ParseInt(c.folder), folder |-> c.folder, img |-> c.img]

FilesTo(copies, dst) ==
    {CopiedFile(copies[i]) : i \in {j \in 1..Len(copies) : copies[j].dst = dst}}

\* the target directories after a call: mkdir(parents=True, exist_ok=True) of
\* the three, then the copies, nothing being removed
TargetsAfter(t, copies) ==
    [exists |-> TRUE,
     train |-> t.train \cup FilesTo(copies, "train"),
     query |-> t.query \cup FilesTo(copies, "query"),
     gallery |-> t.gallery \cup FilesTo(copies, "gallery")]

SplitInit ==
    /\ ids_tree \in SourceTrees
    /\ \E r \in RatioSettings :
          /\ train_ratio = r.t
          /\ query_ratio = r.q
          /\ gallery_ratio = r.g
    /\ seed \in 0..MaxSeed
    /\ runs = 0
    /\ outcome = "idle"
    /\ train_ids = <<>>
    /\ remaining_ids = <<>>
    /\ copied = <<>>
    /\ stats = NoStats
    /\ moved_back = FALSE
    /\ first_copied = <<>>
    /\ targets = NoTargets

\* the splitter's variables while another script is modelled
SplitIdle ==
    /\ ids_tree = <<>>
    /\ train_ratio = 0
    /\ query_ratio = 0
    /\ gallery_ratio = 0
    /\ seed = 0
    /\ runs = 0
    /\ outcome = "idle"
    /\ train_ids = <<>>
    /\ remaining_ids = <<>>
    /\ copied = <<>>
    /\ stats = NoStats
    /\ moved_back = FALSE
    /\ first_copied = <<>>
    /\ targets = NoTargets

SplitFrame ==
    UNCHANGED <<ids_tree, train_ratio, query_ratio, gallery_ratio, seed, renameVars,
                appVars>>

\* a call that finds no numeric folder: the error is reported, nothing is copied
SplitNoFolders ==
    /\ runs < 2
    /\ \E listing \in Listings(DOMAIN ids_tree) :
          /\ IdFolders(listing) = <<>>
          /\ runs' = runs + 1
          /\ outcome' = "error"
          /\ train_ids' = <<>>
          /\ remaining_ids' = <<>>
          /\ copied' = <<>>
          /\ stats' = NoStats
          /\ moved_back' = FALSE
          /\ first_copied' = copied
          /\ targets' = TargetsAfter(targets, <<>>)
    /\ SplitFrame

\* a call that ends in ZeroDivisionError: query_ratio + gallery_ratio = 0 stops
\* it after the training loop, total_images = 0 stops it in the summary
SplitRaises ==
    /\ runs < 2
    /\ \E listing \in Listings(DOMAIN ids_tree) :
          /\ IdFolders(listing) # <<>>
          /\ \E sel \in {SelectIds(listing)} :
              \E all_copies \in
                  {IF query_ratio + gallery_ratio = 0
                   THEN TrainCopies(sel.train_ids)
                   ELSE TrainCopies(sel.train_ids)
                        \o PoolCopies(sel.remaining_ids, sel.rng)} :
              /\ query_ratio + gallery_ratio = 0 \/ sel.total_images = 0
              /\ runs' = runs + 1
              /\ outcome' = "raised"
              /\ train_ids' = sel.train_ids
              /\ remaining_ids' = sel.remaining_ids
              /\ copied' = all_copies
              /\ stats' = IF query_ratio + gallery_ratio = 0
                          THEN StatsOf(sel.train_ids, <<>>, all_copies)
                          ELSE StatsOf(sel.train_ids, sel.remaining_ids, all_copies)
              /\ moved_back' = sel.moved_back
              /\ first_copied' = copied
              /\ targets' = TargetsAfter(targets, all_copies)
    /\ SplitFrame

\* a call that runs to its end
SplitReturns ==
    /\ runs < 2
    /\ \E listing \in Listings(DOMAIN ids_tree) :
          /\ IdFolders(listing) # <<>>
          /\ query_ratio + gallery_ratio # 0
          /\ \E sel \in {SelectIds(listing)} :
              \E all_copies \in {TrainCopies(sel.train_ids)
                                 \o PoolCopies(sel.remaining_ids, sel.rng)} :
              /\ sel.total_images # 0
              /\ runs' = runs + 1
              /\ outcome' = "returned"
              /\ train_ids' = sel.train_ids
              /\ remaining_ids' = sel.remaining_ids
              /\ copied' = all_copies
              /\ stats' = StatsOf(sel.train_ids, sel.remaining_ids, all_copies)
              /\ moved_back' = sel.moved_back
              /\ first_copied' = copied
              /\ targets' = TargetsAfter(targets, all_copies)
    /\ SplitFrame

SplitNext == SplitNoFolders \/ SplitRaises \/ SplitReturns

SplitStart == SplitInit /\ RenameIdle /\ AppIdle

SpecSplit == SplitStart /\ [][SplitNext]_vars

\* verify_split's get_ids_from_dir: the identities of the file names of a
\* target directory (int of the part before the first '_')
get_ids_from_dir(files) == {f.id : f \in files}

\* verify_split's three validation checks on the target directories
verify_split ==
    [overlap_train_query |->
         get_ids_from_dir(targets.train) \cap get_ids_from_dir(targets.query),
     overlap_train_gallery |->
         get_ids_from_dir(targets.train) \cap get_ids_from_dir(targets.gallery),
     same_ids |->
         get_ids_from_dir(targets.query) = get_ids_from_dir(targets.gallery)]

\* between two calls the seed and the ratios of the call in __main__ are
\* edited; the source tree and the target directories stay as they are
SplitReconfigure ==
    /\ runs = 1
    /\ seed' \in 0..MaxSeed
    /\ \E r \in RatioSettings :
          /\ train_ratio' = r.t
          /\ query_ratio' = r.q
          /\ gallery_ratio' = r.g
    /\ <<seed', train_ratio', query_ratio', gallery_ratio'>>
          # <<seed, train_ratio, query_ratio, gallery_ratio>>
    /\ UNCHANGED <<ids_tree, runs, outcome, train_ids, remaining_ids, copied,
                   stats, moved_back, first_copied, targets, renameVars, appVars>>

ResplitNext == SplitNext \/ SplitReconfigure

SpecResplit == SplitStart /\ [][ResplitNext]_vars

----------------------------------------------------------------------------
(* Properties of the splitter *)

NumericFolders == {f \in DOMAIN ids_tree : IsDigitStr(f)}

\* the source images: (folder, position in the sorted image list)
SourceImages == {x \in NumericFolders \X (1..MaxImages) : x[2] <= ids_tree[x[1]]}

CopiesOf(copies, f, i) ==
    {n \in 1..Len(copies) : copies[n].folder = f /\ copies[n].img = i}

\* the partitions an image was copied to
PartitionsOf(copies, f, i) == {copies[n].dst : n \in CopiesOf(copies, f, i)}

\* the identities (int of the folder name) with an image in partition dst
IdentitiesIn(copies, dst) ==
    {ParseInt(copies[n].folder) : n \in {m \in 1..Len(copies) : copies[m].dst = dst}}

Assignment(copies) ==
    {<<copies[n].folder, copies[n].img, copies[n].dst>> : n \in 1..Len(copies)}

\* C1: after the splitter returns, no identity has an image in train and an
\* image in query or gallery, and the identities with an image in query are
\* those with an image in gallery.
C1_IdentityDisjoint ==
    outcome = "returned" =>
        /\ IdentitiesIn(copied, "train")
             \cap (IdentitiesIn(copied, "query") \cup IdentitiesIn(copied, "gallery")) = {}
        /\ IdentitiesIn(copied, "query") = IdentitiesIn(copied, "gallery")

C3_SingletonInTrain ==
    outcome = "returned" =>
        \A f \in NumericFolders :
            ids_tree[f] = 1 => PartitionsOf(copied, f, 1) = {"train"}

C3_Witness ==
    /\ outcome = "returned"
    /\ moved_back
    /\ \E f \in NumericFolders : ids_tree[f] = 1

\* C4: every identity of the query/gallery pool with at least 2 images has at
\* least one image copied to query and at least one copied to gallery, whenever
\* query_ratio + gallery_ratio > 0.
C4_MinimumQueryGallery ==
    (outcome = "returned" /\ query_ratio + gallery_ratio > 0) =>
        \A n \in 1..Len(remaining_ids) :
            remaining_ids[n].count >= 2 =>
                /\ \E i \in 1..remaining_ids[n].count :
                      "query" \in PartitionsOf(copied, remaining_ids[n].folder, i)
                /\ \E i \in 1..remaining_ids[n].count :
                      "gallery" \in PartitionsOf(copied, remaining_ids[n].folder, i)

C4_Witness ==
    /\ outcome = "returned"
    /\ gallery_ratio = 0
    /\ \E n \in 1..Len(remaining_ids) : remaining_ids[n].count >= 2

\* C5: a second run on the same source tree with the same ratios and the same
\* seed assigns every image to the same partition as the first run.
C5_SameSeedSameSplit ==
    runs = 2 => Assignment(copied) = Assignment(first_copied)

\* the train list as the greedy fill left it, before the correction
FilledTrain ==
    IF moved_back THEN Append(train_ids, Head(remaining_ids)) ELSE train_ids

\* target_train of the call that was made
TargetOfCall == TargetTrain(SumCounts(train_ids \o remaining_ids))

\* the overshoot of the fill: train count minus target
OvershootAmount == SumCounts(FilledTrain) - TargetOfCall

LastAdded == FilledTrain[Len(FilledTrain)]

\* more than one non-singleton identity is in the filled train list
SeveralAdded ==
    Len(FilledTrain) >
        Cardinality({i \in 1..Len(FilledTrain) : IsSingle(FilledTrain[i])}) + 1

SelectionMade == runs > 0 /\ outcome \in {"returned", "raised"}

\* C19 as stated: the last-added identity is moved back exactly when train
\* exceeds the target, more than one non-singleton identity is in train, and
\* the last-added identity's image count is more than half of the overshoot.
C19_MoveBackAsStated ==
    SelectionMade =>
        (moved_back <=>
            /\ SumCounts(FilledTrain) > TargetOfCall
            /\ SeveralAdded
            /\ 2 * LastAdded.count > OvershootAmount)

\* C19: the last-added identity is moved back exactly when train exceeds the
\* target, more than one non-singleton identity is in train, and the
\* overshoot is more than half of the last-added identity's image count; in
\* every other case train is left as filled.
C19_MoveBack ==
    SelectionMade =>
        (moved_back <=>
            /\ SumCounts(FilledTrain) > TargetOfCall
            /\ SeveralAdded
            /\ 2 * OvershootAmount > LastAdded.count)

\* a call moved the last-added identity back
C19_Witness ==
    /\ SelectionMade
    /\ moved_back
    /\ SeveralAdded
    /\ 2 * OvershootAmount > LastAdded.count

\* C26: when the source directory holds no numeric identity folder, the call
\* reports the error and returns with the filesystem as it was: no target
\* directory was created and no file was copied.
C26_NoFoldersNoEffect ==
    outcome = "error" =>
        /\ targets = NoTargets
        /\ copied = <<>>

\* no two numeric folders of the source tree stand for the same identity
DistinctIdentities ==
    \A f, g \in NumericFolders : ParseInt(f) = ParseInt(g) => f = g

\* C27: after any sequence of calls on the same source tree into the same
\* target directories, seeds and ratios differing or not, a call that returns
\* leaves directories that pass verify_split: no identity in both train and
\* query, none in both train and gallery, query and gallery with the same
\* identities.
C27_ResplitKeepsInvariants ==
    (outcome = "returned" /\ DistinctIdentities) =>
        /\ verify_split.overlap_train_query = {}
        /\ verify_split.overlap_train_gallery = {}
        /\ verify_split.same_ids

\* the same, for the first call only
FirstSplitVerifies ==
    (outcome = "returned" /\ DistinctIdentities /\ runs = 1) =>
        /\ verify_split.overlap_train_query = {}
        /\ verify_split.overlap_train_gallery = {}
        /\ verify_split.same_ids

\* the copies of the last call that took an image of the folder to dst
FolderCopiesTo(folder, dst) ==
    {i \in 1..Len(copied) : copied[i].folder = folder /\ copied[i].dst = dst}

\* C29: every identity the call places in the query/gallery pool has at least
\* two images, whatever the source tree, folders without any recognized image
\* included, so that each pool identity gives at least one image to query and
\* at least one to gallery.
C29_PoolHasTwoImages ==
    outcome = "returned" =>
        \A i \in 1..Len(remaining_ids) :
            /\ remaining_ids[i].count >= 2
            /\ FolderCopiesTo(remaining_ids[i].folder, "query") # {}
            /\ FolderCopiesTo(remaining_ids[i].folder, "gallery") # {}

----------------------------------------------------------------------------
(* The two-phase normalizers: rename_folders_decrement_safe and             *)
(* rename_folders_with_prefix_sequential                                    *)

TEMP_ == <<"T", "E", "M", "P", "_">>

DecrementNames ==
    {<<"0">>, <<"1">>, <<"2">>, <<"0", "1">>, TEMP_ \o <<"1">>}

prefix_pattern == <<"t">>

PrefixNames ==
    {<<"t", "1">>, <<"t", "2">>, <<"t", "0", "1">>, <<"t", "5">>, <<"0">>,
     TEMP_ \o <<"0", "0", "0", "0", "1">>}

\* the decrement normalizer renames a folder whose name is a number >= 1
DecAccepted(folder_name) == IsDigitStr(folder_name) /\ ParseInt(folder_name) - 1 >= 0

\* a variant that plans the folder's own number as its new name
DecOperationsNoDecrement(listing) ==
    LET accepted == SelectSeq(listing, DecAccepted)
        sorted == SortByKey([i \in 1..Len(accepted) |->
                     [k |-> <<ParseInt(accepted[i])>>,
                      v |-> [old_name |-> accepted[i],
                             temp_name |-> TEMP_ \o accepted[i],
                             new_name |-> IntToStr(ParseInt(accepted[i]))]]])
    IN  [i \in 1..Len(sorted) |-> sorted[i].v]

\* rename_operations of the decrement normalizer: sorted by current number
DecOperations(listing) ==
    LET accepted == SelectSeq(listing, DecAccepted)
        sorted == SortByKey([i \in 1..Len(accepted) |->
                     [k |-> <<ParseInt(accepted[i])>>,
                      v |-> [old_name |-> accepted[i],
                             temp_name |-> TEMP_ \o accepted[i],
                             new_name |-> IntToStr(ParseInt(accepted[i]) - 1)]]])
    IN  [i \in 1..Len(sorted) |-> sorted[i].v]

DecSkipped(listing) == SelectSeq(listing, LAMBDA f : ~DecAccepted(f))

\* re.match(^prefix(\d+)$, folder_name)
PfxMatches(folder_name) ==
    /\ StartsWith(folder_name, prefix_pattern)
    /\ IsDigitStr(SubSeq(folder_name, Len(prefix_pattern) + 1, Len(folder_name)))

PfxNumber(folder_name) ==
    ParseInt(SubSeq(folder_name, Len(prefix_pattern) + 1, Len(folder_name)))

\* f"{new_id:05d}"
RECURSIVE ZeroPad(_, _)
ZeroPad(digits, width) ==
    IF Len(digits) >= width THEN digits ELSE ZeroPad(<<"0">> \o digits, width)

\* a variant that numbers the folders in the order of the listing
PfxOperationsUnsorted(listing) ==
    LET matching == SelectSeq(listing, PfxMatches)
    IN  [i \in 1..Len(matching) |->
            [old_name |-> matching[i],
             temp_name |-> TEMP_ \o ZeroPad(IntToStr(i - 1), 5),
             new_name |-> IntToStr(i - 1)]]

\* temp_mapping of the prefix normalizer: sorted by number, numbered from 0
PfxOperations(listing) ==
    LET matching == SelectSeq(listing, PfxMatches)
        parsed_folders == SortByKey([i \in 1..Len(matching) |->
                              [k |-> <<PfxNumber(matching[i])>>, v |-> matching[i]]])
    IN  [i \in 1..Len(parsed_folders) |->
            [old_name |-> parsed_folders[i].v,
             temp_name |-> TEMP_ \o ZeroPad(IntToStr(i - 1), 5),
             new_name |-> IntToStr(i - 1)]]

PfxSkipped(listing) == SelectSeq(listing, LAMBDA f : ~PfxMatches(f))

\* a variant of the scan that goes on to Phase 1 whatever dry_run is
PlanAlways(ops, skipped) ==
    /\ pc = "start"
    /\ rename_operations' = ops
    /\ skipped_folders' = skipped
    /\ pc' = IF ops = <<>> THEN "done" ELSE "phase1"
    /\ idx' = 1
    /\ UNCHANGED <<dir, temp_mapping, counts, oslog>>
    /\ RenameFrame

\* the scan, the preview and the dry-run test of either normalizer
Plan(ops, skipped) ==
    /\ pc = "start"
    /\ rename_operations' = ops
    /\ skipped_folders' = skipped
    /\ pc' = IF ops = <<>> \/ dry_run THEN "done" ELSE "phase1"
    /\ idx' = 1
    /\ UNCHANGED <<dir, temp_mapping, counts, oslog>>
    /\ RenameFrame

DecPlan ==
    /\ script = "decrement"
    /\ \E listing \in Listings(DOMAIN dir) :
          Plan(DecOperations(listing), DecSkipped(listing))

PfxPlan ==
    /\ script = "prefix"
    /\ \E listing \in Listings(DOMAIN dir) :
          Plan(PfxOperations(listing), PfxSkipped(listing))

\* one pass of the Phase 1 loop: original name -> temporary name
Phase1Step ==
    /\ pc = "phase1"
    /\ idx <= Len(rename_operations)
    /\ LET op == rename_operations[idx]
           r == OsRename(dir, op.old_name, op.temp_name)
       IN  /\ dir' = r.dir
           /\ oslog' = Append(oslog, [phase |-> "phase1", src |-> op.old_name,
                                      dst |-> op.temp_name, ok |-> r.ok])
           /\ temp_mapping' = IF r.ok THEN Append(temp_mapping, op) ELSE temp_mapping
           /\ counts' = IF r.ok
                        THEN [counts EXCEPT !.phase1_success = @ + 1]
                        ELSE [counts EXCEPT !.phase1_failed = @ + 1]
    /\ idx' = idx + 1
    /\ UNCHANGED <<pc, rename_operations, skipped_folders>>
    /\ RenameFrame

DecPhase1Step == script = "decrement" /\ Phase1Step

PfxPhase1Step == script = "prefix" /\ Phase1Step

\* a variant of the test that only sees a Phase 1 in which nothing succeeded
Phase1FailedNone == counts.phase1_success = 0

\* if phase1_failed > 0
Phase1Failed == counts.phase1_failed > 0

\* the end of the Phase 1 loop: roll back, or go on to Phase 2
Phase1End ==
    /\ pc = "phase1"
    /\ idx > Len(rename_operations)
    /\ pc' = IF Phase1Failed THEN "rollback" ELSE "phase2"
    /\ idx' = 1
    /\ UNCHANGED <<dir, rename_operations, temp_mapping, skipped_folders, counts, oslog>>
    /\ RenameFrame

DecPhase1End == script = "decrement" /\ Phase1End

PfxPhase1End == script = "prefix" /\ Phase1End

\* a variant of the rollback target: the final name
DecOriginalNameFinal(op) == op.new_name

\* original_name = temp_name.replace("TEMP_", "")
DecOriginalName(op) == RemoveAll(op.temp_name, TEMP_)

\* old_path = os.path.join(directory_path, old_name)
PfxOriginalName(op) == op.old_name

\* one pass of the rollback loop: temporary name -> original name
RollbackStep(original_name) ==
    /\ pc = "rollback"
    /\ idx <= Len(temp_mapping)
    /\ LET op == temp_mapping[idx]
           r == OsRename(dir, op.temp_name, original_name)
       IN  /\ dir' = r.dir
           /\ oslog' = Append(oslog, [phase |-> "rollback", src |-> op.temp_name,
                                      dst |-> original_name, ok |-> r.ok])
    /\ idx' = idx + 1
    /\ UNCHANGED <<pc, rename_operations, temp_mapping, skipped_folders, counts>>
    /\ RenameFrame

DecRollbackStep ==
    /\ script = "decrement"
    /\ pc = "rollback" /\ idx <= Len(temp_mapping)
    /\ RollbackStep(DecOriginalName(temp_mapping[idx]))

PfxRollbackStep ==
    /\ script = "prefix"
    /\ pc = "rollback" /\ idx <= Len(temp_mapping)
    /\ RollbackStep(PfxOriginalName(temp_mapping[idx]))

\* the return after the rollback loop
RollbackEnd ==
    /\ pc = "rollback"
    /\ idx > Len(temp_mapping)
    /\ pc' = "done"
    /\ UNCHANGED <<dir, idx, rename_operations, temp_mapping, skipped_folders,
                   counts, oslog>>
    /\ RenameFrame

DecRollbackEnd == script = "decrement" /\ RollbackEnd

PfxRollbackEnd == script = "prefix" /\ RollbackEnd

\* one pass of the Phase 2 loop: temporary name -> final name
Phase2Step ==
    /\ pc = "phase2"
    /\ idx <= Len(temp_mapping)
    /\ LET op == temp_mapping[idx]
           r == OsRename(dir, op.temp_name, op.new_name)
       IN  /\ dir' = r.dir
           /\ oslog' = Append(oslog, [phase |-> "phase2", src |-> op.temp_name,
                                      dst |-> op.new_name, ok |-> r.ok])
           /\ counts' = IF r.ok
                        THEN [counts EXCEPT !.phase2_success = @ + 1]
                        ELSE [counts EXCEPT !.phase2_failed = @ + 1]
    /\ idx' = idx + 1
    /\ UNCHANGED <<pc, rename_operations, temp_mapping, skipped_folders>>
    /\ RenameFrame

DecPhase2Step == script = "decrement" /\ Phase2Step

PfxPhase2Step == script = "prefix" /\ Phase2Step

\* the end of the Phase 2 loop: the summary is printed
Phase2End ==
    /\ pc = "phase2"
    /\ idx > Len(temp_mapping)
    /\ pc' = "done"
    /\ UNCHANGED <<dir, idx, rename_operations, temp_mapping, skipped_folders,
                   counts, oslog>>
    /\ RenameFrame

DecPhase2End == script = "decrement" /\ Phase2End

PfxPhase2End == script = "prefix" /\ Phase2End

TwoPhaseInit ==
    /\ SplitIdle
    /\ AppIdle
    /\ offset = 0
    /\ sort_by = "number"
    /\ prefix_to_remove = None
    /\ \/ script = "decrement" /\ RenameInit(DecrementNames)
       \/ script = "prefix" /\ RenameInit(PrefixNames)

TwoPhaseNext ==
    \/ DecPlan \/ DecPhase1Step \/ DecPhase1End \/ DecRollbackStep \/ DecRollbackEnd
    \/ DecPhase2Step \/ DecPhase2End
    \/ PfxPlan \/ PfxPhase1Step \/ PfxPhase1End \/ PfxRollbackStep \/ PfxRollbackEnd
    \/ PfxPhase2Step \/ PfxPhase2End

SpecTwoPhase == TwoPhaseInit /\ [][TwoPhaseNext]_vars

----------------------------------------------------------------------------
(* Properties of the two-phase normalizers *)

LogOf(phase) == {i \in 1..Len(oslog) : oslog[i].phase = phase}

\* the operations whose Phase 1 rename succeeded, as the log records them
RenamedToTemp == {i \in LogOf("phase1") : oslog[i].ok}

FinalNames == {rename_operations[i].new_name : i \in 1..Len(rename_operations)}

\* C6: when a Phase 1 rename failed, at the return every folder that was
\* renamed to a temporary name is under its original name again, and no final
\* target name is carried by a folder that did not carry it before the run.
C6_RollbackRestores ==
    (pc = "done" /\ \E i \in LogOf("phase1") : ~oslog[i].ok) =>
        /\ \A i \in RenamedToTemp :
              /\ oslog[i].src \in DOMAIN dir
              /\ dir[oslog[i].src] = dir0[oslog[i].src]
        /\ \A n \in FinalNames :
              n \in DOMAIN dir => (n \in DOMAIN dir0 /\ dir[n] = dir0[n])

C6_Witness ==
    /\ pc = "done"
    /\ \E i \in LogOf("phase1") : ~oslog[i].ok
    /\ \E i \in LogOf("phase1") : oslog[i].ok
    /\ \E i \in LogOf("rollback") : oslog[i].ok

\* C7: no temporary-to-final rename is made in a run in which a Phase 1 rename
\* failed; and once Phase 2 has begun nothing but temporary-to-final renames
\* is made (nothing is undone), one for every folder renamed in Phase 1, also
\* after one of them failed.
C7_PhaseOrder ==
    /\ (\E i \in LogOf("phase1") : ~oslog[i].ok) => LogOf("phase2") = {}
    /\ \A i \in LogOf("phase2") : \A j \in 1..Len(oslog) :
          j > i => oslog[j].phase = "phase2"
    /\ LogOf("phase2") # {} => LogOf("rollback") = {}
    /\ (pc = "done" /\ ~dry_run /\ ~(\E i \in LogOf("phase1") : ~oslog[i].ok)) =>
          /\ Cardinality(LogOf("phase2")) = Len(rename_operations)
          /\ \A k \in 1..Len(rename_operations) :
                \E i \in LogOf("phase2") :
                    /\ oslog[i].src = rename_operations[k].temp_name
                    /\ oslog[i].dst = rename_operations[k].new_name

C7_Witness ==
    /\ pc = "done"
    /\ \E i \in LogOf("phase2") : \E j \in LogOf("phase2") :
          i < j /\ ~oslog[i].ok /\ oslog[j].ok

\* the folders are all named by digits, with pairwise distinct values >= 1
DistinctPositive(names) ==
    /\ \A n \in names : IsDigitStr(n) /\ ParseInt(n) >= 1
    /\ \A m, n \in names : ParseInt(m) = ParseInt(n) => m = n

NoRenameFailed == \A i \in 1..Len(oslog) : oslog[i].ok

\* C20: when every subfolder has a pure-digit name, the values being pairwise
\* distinct and >= 1, a committing run of the decrement normalizer in which
\* no os.rename failed leaves the folder that was named k under str(k-1),
\* also when that name was another folder's name, and no TEMP_ name is left.
C20_Decrement ==
    (/\ script = "decrement"
     /\ pc = "done"
     /\ ~dry_run
     /\ DistinctPositive(DOMAIN dir0)
     /\ NoRenameFailed) =>
        /\ \A n \in DOMAIN dir0 :
              /\ IntToStr(ParseInt(n) - 1) \in DOMAIN dir
              /\ dir[IntToStr(ParseInt(n) - 1)] = dir0[n]
        /\ DOMAIN dir = {IntToStr(ParseInt(n) - 1) : n \in DOMAIN dir0}
        /\ \A n \in DOMAIN dir : ~StartsWith(n, TEMP_)

\* a committing run has renamed two folders, one onto the other's name
C20_Witness ==
    /\ script = "decrement"
    /\ pc = "done"
    /\ ~dry_run
    /\ DistinctPositive(DOMAIN dir0)
    /\ NoRenameFailed
    /\ Cardinality(DOMAIN dir0) = 2
    /\ \E n \in DOMAIN dir0 : IntToStr(ParseInt(n) - 1) \in DOMAIN dir0
    /\ Len(oslog) = 4

\* the final target of the operation is the name of a folder that the run
\* does not rename
TargetOccupied(op) ==
    /\ op.new_name \in DOMAIN dir0
    /\ \A k \in 1..Len(rename_operations) : rename_operations[k].old_name # op.new_name

\* no other operation of the run has the same final target
TargetOwn(op) ==
    Cardinality({k \in 1..Len(rename_operations) :
                    rename_operations[k].new_name = op.new_name}) = 1

\* C21: after a committing run of a two-phase renamer in which Phase 1 did
\* not fail, a folder whose final target is occupied by a folder the run does
\* not rename has its original name again and the occupying folder is the one
\* it was, while every folder whose target is free and its own is under its
\* target name.
C21_CollisionSkipsOne ==
    (/\ script \in {"decrement", "prefix"}
     /\ pc = "done"
     /\ ~dry_run
     /\ locked = {}
     /\ \A i \in LogOf("phase1") : oslog[i].ok) =>
        \A k \in 1..Len(rename_operations) :
            LET op == rename_operations[k]
            IN  IF TargetOccupied(op)
                THEN /\ op.old_name \in DOMAIN dir
                     /\ dir[op.old_name] = dir0[op.old_name]
                     /\ op.new_name \in DOMAIN dir
                     /\ dir[op.new_name] = dir0[op.new_name]
                ELSE TargetOwn(op) =>
                        /\ op.new_name \in DOMAIN dir
                        /\ dir[op.new_name] = dir0[op.old_name]

\* every folder matches prefix+digits, the parsed numbers being distinct
DistinctPrefixed(names) ==
    /\ \A n \in names : PfxMatches(n)
    /\ \A m, n \in names : PfxNumber(m) = PfxNumber(n) => m = n

\* C22: when all N subfolders match prefix+digits with pairwise distinct
\* numbers, a committing run of the prefix normalizer in which no os.rename
\* failed leaves exactly the names 0..N-1, and a folder with a smaller
\* original number is under a smaller new ID.
C22_SequentialIds ==
    (/\ script = "prefix"
     /\ pc = "done"
     /\ ~dry_run
     /\ DistinctPrefixed(DOMAIN dir0)
     /\ NoRenameFailed) =>
        /\ DOMAIN dir = {IntToStr(i) : i \in 0..(Cardinality(DOMAIN dir0) - 1)}
        /\ {dir[n] : n \in DOMAIN dir} = DOMAIN dir0
        /\ \A a, b \in DOMAIN dir :
              PfxNumber(dir[a]) < PfxNumber(dir[b]) => ParseInt(a) < ParseInt(b)

\* a committing run has renamed three folders whose numbers have a gap
C22_Witness ==
    /\ script = "prefix"
    /\ pc = "done"
    /\ ~dry_run
    /\ DistinctPrefixed(DOMAIN dir0)
    /\ NoRenameFailed
    /\ Cardinality(DOMAIN dir0) = 3
    /\ <<"t", "5">> \in DOMAIN dir0
    /\ <<"2">> \in DOMAIN dir
    /\ dir[<<"2">>] = <<"t", "5">>

----------------------------------------------------------------------------
(* The image renamer and its rollback: rename_turtle_images and             *)
(* rollback_renaming                                                        *)

MaxFiles == 3

\* the code point of a character, for the comparison of names by sorted()
CharCode(c) ==
    CASE c = "-" -> 45 [] c = "." -> 46
      [] c \in Digits -> 48 + DigitVal(c)
      [] c = "A" -> 65 [] c = "C" -> 67 [] c = "E" -> 69 [] c = "G" -> 71 [] c = "J" -> 74 [] c = "N" -> 78
      [] c = "P" -> 80
      [] c = "_" -> 95
      [] c = "a" -> 97 [] c = "b" -> 98 [] c = "c" -> 99 [] c = "g" -> 103 [] c = "j" -> 106
      [] c = "n" -> 110 [] c = "o" -> 111 [] c = "p" -> 112 [] c = "t" -> 116
      [] c = "w" -> 119 [] c = "x" -> 120

Codes(name) == [i \in 1..Len(name) |-> CharCode(name[i])]

\* str.upper() on one character
UpperChar(c) ==
    CASE c = "j" -> "J" [] c = "p" -> "P" [] c = "g" -> "G"
      [] OTHER -> c

Upper(name) == [i \in 1..Len(name) |-> UpperChar(name[i])]

\* Path.suffix: the name from its last dot on, when that dot is not the
\* first character and not the last
Suffix(name) ==
    LET dots == {i \in 2..Len(name) : name[i] = "."}
    IN  IF dots = {} THEN <<>>
        ELSE LET last == CHOOSE i \in dots : \A j \in dots : j <= i
             IN  IF last = Len(name) THEN <<>> ELSE SubSeq(name, last, Len(name))

ImageSuffixes ==
    { <<".", "J", "P", "G">>,
      <<".", "J", "P", "E", "G">>,
      <<".", "P", "N", "G">> }

IsImage(name) == Upper(Suffix(name)) \in ImageSuffixes

\* names a file of an identity folder can have
ImageNames ==
    { <<"0", ".", "j", "p", "g">>,
      <<"1", "_", "-", "1", "_", "0", "_", "0", ".", "j", "p", "g">>,
      <<"b", ".", "j", "p", "g">>,
      <<"1", "_", "-", "1", "_", "1", "_", "b", ".", "j", "p", "g">>,
      <<"a", "_", "b", ".", "j", "p", "g">>,
      <<"1", "_", "-", "1", "_", "b", ".", "j", "p", "g">>,
      <<"n", ".", "t", "x", "t">> }

IdFolderNames == {<<"1">>, <<"0", "1">>, <<"x">>}

\* the sum of n[f] over the folders f of S
RECURSIVE SumOver(_, _)
SumOver(n, S) ==
    IF S = {} THEN 0
    ELSE LET f == CHOOSE g \in S : TRUE IN n[f] + SumOver(n, S \ {f})

\* base directories: identity folders holding files, MaxFiles files in all,
\* every file being the one originally under its name
ImageTrees ==
    UNION { { [f \in S |-> [n \in t[f] |-> n]] :
                t \in {u \in [S -> SUBSET ImageNames] :
                          SumOver([f \in S |-> Cardinality(u[f])], S) <= MaxFiles} }
            : S \in (SUBSET IdFolderNames) \ {{}} }

\* sorted(folder.iterdir() filtered by suffix): Paths compare by their names
SortedImages(files, listing) ==
    LET images == SelectSeq(listing, IsImage)
        sorted == SortByKey([i \in 1..Len(images) |->
                                [k |-> Codes(images[i]), v |-> images[i]]])
    IN  [i \in 1..Len(sorted) |-> sorted[i].v]

\* Path.rename within one folder: a missing source fails; an existing
\* destination is replaced on POSIX and makes the call fail on Windows
PathRename(files, src, dst) ==
    IF src \notin DOMAIN files THEN [ok |-> FALSE, files |-> files]
    ELSE IF src = dst THEN [ok |-> TRUE, files |-> files]
    ELSE IF dst \in DOMAIN files /\ platform = "windows"
    THEN [ok |-> FALSE, files |-> files]
    ELSE [ok |-> TRUE,
          files |-> [n \in (DOMAIN files \ {src}) \cup {dst} |->
                        IF n = dst THEN files[src] ELSE files[n]]]

\* f"{turtle_id}_-1_{index}_{original_name}"
NewName(turtle_id, index, original_name) ==
    IntToStr(turtle_id) \o <<"_", "-", "1", "_">> \o IntToStr(index) \o <<"_">>
        \o original_name

\* the loop over one folder's images, from position i of the sorted snapshot
RECURSIVE RenameLoop(_, _, _, _)
RenameLoop(files, image_files, i, turtle_id) ==
    IF i > Len(image_files) THEN [files |-> files, total |-> 0]
    ELSE LET r == PathRename(files, image_files[i],
                             NewName(turtle_id, i - 1, image_files[i]))
             rest == RenameLoop(r.files, image_files, i + 1, turtle_id)
         IN  [files |-> rest.files, total |-> rest.total + (IF r.ok THEN 1 ELSE 0)]

\* original_name.split('_', 3): the text after the third underscore, or
\* <<"none">> when there are fewer than three underscores
RECURSIVE SplitRest(_, _)
SplitRest(name, n) ==
    IF n = 0 THEN <<"some", name>>
    ELSE IF Len(name) = 0 THEN <<"none">>
    ELSE IF name[1] = "_" THEN SplitRest(Tail(name), n - 1)
    ELSE SplitRest(Tail(name), n)

\* f"{turtle_id}_-1_"
RollbackPrefix(turtle_id) == IntToStr(turtle_id) \o <<"_", "-", "1", "_">>

\* parts = original_name.split('_', 3); restored_name = parts[3]
RestoredName(name, turtle_id) == SplitRest(name, 3)

\* the line rollback_renaming prints for a file: none when the name has the
\* prefix and fewer than four parts
RollbackLine(name, applies_prefix, has_parts, ok) ==
    IF ~applies_prefix THEN <<[name |-> name, outcome |-> "skipped"]>>
    ELSE IF ~has_parts THEN <<>>
    ELSE IF ok THEN <<[name |-> name, outcome |-> "restored"]>>
    ELSE <<[name |-> name, outcome |-> "failed"]>>

\* the rollback loop over one folder's images
RECURSIVE RollbackLoop(_, _, _, _)
RollbackLoop(files, image_files, i, turtle_id) ==
    IF i > Len(image_files) THEN [files |-> files, total |-> 0, report |-> <<>>]
    ELSE LET name == image_files[i]
             restored == RestoredName(name, turtle_id)
             has_prefix == StartsWith(name, RollbackPrefix(turtle_id))
             applies == has_prefix /\ restored[1] = "some"
             r == IF applies THEN PathRename(files, name, restored[2])
                  ELSE [ok |-> FALSE, files |-> files]
             rest == RollbackLoop(r.files, image_files, i + 1, turtle_id)
         IN  [files |-> rest.files,
              total |-> rest.total + (IF r.ok THEN 1 ELSE 0),
              report |-> RollbackLine(name, has_prefix, restored[1] = "some", r.ok)
                         \o rest.report]

NoTotals == [total_renamed |-> 0, total_restored |-> 0]

ImagesInit ==
    /\ SplitIdle
    /\ AppIdle
    /\ script = "images"
    /\ dry_run = FALSE
    /\ platform \in Platforms
    /\ empty_dirs = {}
    /\ locked = {}
    /\ dir0 \in ImageTrees
    /\ dir = dir0
    /\ pc = "start"
    /\ idx = 0
    /\ rename_operations = <<>>
    /\ temp_mapping = <<>>
    /\ skipped_folders = <<>>
    /\ counts = NoTotals
    /\ oslog = <<>>
    /\ offset = 0
    /\ sort_by = "number"
    /\ folder_mapping = <<>>
    /\ prefix_to_remove = None
    /\ report = <<>>
    /\ preview = <<>>

ImagesFrame ==
    UNCHANGED <<splitVars, script, dry_run, platform, empty_dirs, locked, dir0, idx,
                rename_operations, temp_mapping, skipped_folders, oslog,
                offset, sort_by, folder_mapping, prefix_to_remove, preview,
                appVars>>

\* one of the orders in which iterdir() can yield the names
RECURSIVE SomeListing(_)
SomeListing(S) ==
    IF S = {} THEN <<>>
    ELSE LET n == CHOOSE m \in S : TRUE IN <<n>> \o SomeListing(S \ {n})

\* the sorted snapshot of the images of folder f; file names are distinct, so
\* the sort gives one order for any listing
ImageFiles(f) == SortedImages(dir[f], SomeListing(DOMAIN dir[f]))

\* rename_turtle_images over the numeric folders, which do not interact
RenamePass ==
    [f \in DOMAIN dir |->
        IF IsDigitStr(f) THEN RenameLoop(dir[f], ImageFiles(f), 1, ParseInt(f))
        ELSE [files |-> dir[f], total |-> 0]]

\* rollback_renaming over the numeric folders
RollbackPass ==
    [f \in DOMAIN dir |->
        IF IsDigitStr(f) THEN RollbackLoop(dir[f], ImageFiles(f), 1, ParseInt(f))
        ELSE [files |-> dir[f], total |-> 0, report |-> <<>>]]

rename_turtle_images ==
    /\ pc = "start"
    /\ \E pass \in {RenamePass} :
          /\ dir' = [f \in DOMAIN dir |-> pass[f].files]
          /\ counts' = [counts EXCEPT !.total_renamed =
                           SumOver([f \in DOMAIN dir |-> pass[f].total], DOMAIN dir)]
    /\ pc' = "renamed"
    /\ UNCHANGED report
    /\ ImagesFrame

\* the lines verify_renaming prints for the first three images of a folder
VerifyLines(image_files, turtle_id) ==
    [i \in 1..(IF Len(image_files) < 3 THEN Len(image_files) ELSE 3) |->
        [name |-> image_files[i],
         outcome |-> IF StartsWith(image_files[i],
                                   RollbackPrefix(turtle_id) \o IntToStr(i - 1) \o <<"_">>)
                     THEN "matches" ELSE "mismatch"]]

\* verify_renaming(base_dir), called right after rename_turtle_images
verify_renaming ==
    /\ pc = "renamed"
    /\ report' = [f \in {g \in DOMAIN dir : IsDigitStr(g)} |->
                     VerifyLines(ImageFiles(f), ParseInt(f))]
    /\ pc' = "verified"
    /\ UNCHANGED <<dir, counts>>
    /\ ImagesFrame

rollback_renaming ==
    /\ pc \in {"renamed", "verified"}
    /\ \E pass \in {RollbackPass} :
          /\ dir' = [f \in DOMAIN dir |-> pass[f].files]
          /\ report' = [f \in {g \in DOMAIN dir : IsDigitStr(g)} |-> pass[f].report]
          /\ counts' = [counts EXCEPT !.total_restored =
                           SumOver([f \in DOMAIN dir |-> pass[f].total], DOMAIN dir)]
    /\ pc' = "restored"
    /\ ImagesFrame

\* rollback_renaming run on a directory as it is found, no renaming before it
rollback_renaming_alone ==
    /\ pc = "start"
    /\ \E pass \in {RollbackPass} :
          /\ dir' = [f \in DOMAIN dir |-> pass[f].files]
          /\ report' = [f \in {g \in DOMAIN dir : IsDigitStr(g)} |-> pass[f].report]
          /\ counts' = [counts EXCEPT !.total_restored =
                           SumOver([f \in DOMAIN dir |-> pass[f].total], DOMAIN dir)]
    /\ pc' = "rolled_back"
    /\ ImagesFrame

ImagesNext ==
    \/ rename_turtle_images \/ verify_renaming \/ rollback_renaming
    \/ rollback_renaming_alone

SpecImages == ImagesInit /\ [][ImagesNext]_vars

\* the largest number of images of the folder that is renamed and verified
MaxBatch == 11

\* file names of a large identity folder
BatchNames ==
    {<<c>> \o <<".", "j", "p", "g">> :
        c \in {"0", "1", "2", "3", "4", "5", "6", "7", "8", "9", "a", "b"}}

\* base directories with one identity folder of up to MaxBatch images
BatchTrees ==
    {[f \in {<<"1">>} |-> [n \in S |-> n]] :
        S \in {T \in SUBSET BatchNames : Cardinality(T) <= MaxBatch}}

VerifyInit ==
    /\ SplitIdle
    /\ AppIdle
    /\ script = "images"
    /\ dry_run = FALSE
    /\ platform \in Platforms
    /\ empty_dirs = {}
    /\ locked = {}
    /\ dir0 \in BatchTrees
    /\ dir = dir0
    /\ pc = "start"
    /\ idx = 0
    /\ rename_operations = <<>>
    /\ temp_mapping = <<>>
    /\ skipped_folders = <<>>
    /\ counts = NoTotals
    /\ oslog = <<>>
    /\ offset = 0
    /\ sort_by = "number"
    /\ folder_mapping = <<>>
    /\ prefix_to_remove = None
    /\ report = <<>>
    /\ preview = <<>>

SpecVerify == VerifyInit /\ [][ImagesNext]_vars

----------------------------------------------------------------------------
(* Properties of the image renamer and its rollback *)

\* the numeric folders that hold at least one image, all names being distinct
\* by construction of a directory
ImageFolders ==
    {f \in DOMAIN dir0 : IsDigitStr(f) /\ \E n \in DOMAIN dir0[f] : IsImage(n)}

\* C8: after rename_turtle_images and then rollback_renaming, every numeric
\* identity folder that held at least one image holds exactly the file names
\* it held before.
C8_RoundTrip ==
    pc = "restored" => \A f \in ImageFolders : DOMAIN dir[f] = DOMAIN dir0[f]

\* the image files a numeric folder held before the run
ImagesBefore(f) == {n \in DOMAIN dir0[f] : IsImage(n)}

\* the rank of an image in the sorted order of the folder's original names
RankOf(f, n) ==
    Cardinality({m \in ImagesBefore(f) : LexLess(Codes(m), Codes(n))})

\* the images of all numeric folders before the run
ImagesToRename ==
    SumOver([f \in DOMAIN dir0 |->
                IF IsDigitStr(f) THEN Cardinality(ImagesBefore(f)) ELSE 0], DOMAIN dir0)

\* every rename of the pass was counted as done
NoRenameError == counts.total_renamed = ImagesToRename

\* C23: after rename_turtle_images without a rename error, in every numeric
\* folder each image is under {identity}_-1_{i}_{original name}, i being its
\* rank among the original names, so the indices are 0..n-1 each once; the
\* other files are under their names, and the folders with other names hold
\* what they held.
C23_RenamedByRank ==
    (pc = "renamed" /\ NoRenameError) =>
        \A f \in DOMAIN dir0 :
            IF IsDigitStr(f)
            THEN /\ \A n \in ImagesBefore(f) :
                      LET new_name == NewName(ParseInt(f), RankOf(f, n), n)
                      IN  new_name \in DOMAIN dir[f] /\ dir[f][new_name] = n
                 /\ \A n \in DOMAIN dir0[f] \ ImagesBefore(f) :
                      n \in DOMAIN dir[f] /\ dir[f][n] = n
                 /\ Cardinality(DOMAIN dir[f]) = Cardinality(DOMAIN dir0[f])
            ELSE dir[f] = dir0[f]

\* C24: when verify_renaming runs right after rename_turtle_images has
\* renamed without error, for every identity folder each of the first three
\* files of its sorted re-scan starts with {identity}_-1_{i}_, whatever the
\* number of images of the folder.
C24_VerifyPasses ==
    (pc = "verified" /\ NoRenameError) =>
        \A f \in DOMAIN report : \A i \in 1..Len(report[f]) :
            report[f][i].outcome = "matches"

\* the lines of the rollback's report for one file of a folder
LinesFor(rep, f, n) == {i \in 1..Len(rep[f]) : rep[f][i].name = n}

\* C25: in a run of rollback_renaming, an image file whose name does not
\* start with {identity}_-1_ for its folder's identity keeps its name and is
\* reported as skipped, and every image file of a numeric folder ends in
\* exactly one reported outcome: restored, skipped or failed.
C25_RollbackOutcomes ==
    [][pc' \in {"restored", "rolled_back"} =>
          \A f \in {g \in DOMAIN dir : IsDigitStr(g)} :
              \A n \in {m \in DOMAIN dir[f] : IsImage(m)} :
                  /\ ~StartsWith(n, RollbackPrefix(ParseInt(f))) =>
                        /\ n \in DOMAIN dir'[f]
                        /\ \E i \in LinesFor(report', f, n) :
                              report'[f][i].outcome = "skipped"
                  /\ Cardinality(LinesFor(report', f, n)) = 1
                  /\ \A i \in LinesFor(report', f, n) :
                        report'[f][i].outcome \in {"restored", "skipped", "failed"}]_vars

----------------------------------------------------------------------------
(* The single-pass normalizers: rename_folders_with_offset and              *)
(* rename_folders_sorted_sequential                                         *)

\* re.findall(r'\d+', name), scanning from position i with the run `cur` open
RECURSIVE FindAllNumbers(_, _, _)
FindAllNumbers(name, i, cur) ==
    LET closed == IF cur = <<>> THEN <<>> ELSE <<cur>>
    IN  IF i > Len(name) THEN closed
        ELSE IF name[i] \in Digits
             THEN FindAllNumbers(name, i + 1, Append(cur, name[i]))
             ELSE closed \o FindAllNumbers(name, i + 1, <<>>)

\* int(numbers[-1]), as a one-element tuple, or <<>> when no number is found
LastNumber(name) ==
    LET numbers == FindAllNumbers(name, 1, <<>>)
    IN  IF numbers = <<>> THEN <<>> ELSE <<ParseInt(numbers[Len(numbers)])>>

\* the loop that performs the planned renames, one pass
CommitStep ==
    /\ pc = "commit"
    /\ idx <= Len(rename_operations)
    /\ LET op == rename_operations[idx]
           r == OsRename(dir, op.old_name, op.new_name)
       IN  /\ dir' = r.dir
           /\ oslog' = Append(oslog, [phase |-> "commit", src |-> op.old_name,
                                      dst |-> op.new_name, ok |-> r.ok])
           /\ counts' = IF r.ok
                        THEN [counts EXCEPT !.success_count = @ + 1]
                        ELSE [counts EXCEPT !.failed_count = @ + 1]
    /\ idx' = idx + 1
    /\ UNCHANGED <<pc, rename_operations, temp_mapping, skipped_folders>>
    /\ RenameFrame

\* the end of the loop: the summary is printed
CommitEnd ==
    /\ pc = "commit"
    /\ idx > Len(rename_operations)
    /\ pc' = "done"
    /\ UNCHANGED <<dir, idx, rename_operations, temp_mapping, skipped_folders,
                   counts, oslog>>
    /\ RenameFrame

(* rename_folders_with_offset *)

OffsetNames ==
    {<<"0">>, <<"1">>, <<"0", "1">>, <<"2">>, <<"x", "1">>, <<"x">>}

Offsets == {-1, 0, 1}

\* original_number: int(folder_name) for a pure number, else the last number
OriginalNumber(folder_name) ==
    IF IsDigitStr(folder_name) THEN <<ParseInt(folder_name)>>
    ELSE LastNumber(folder_name)

\* the folder passes the three tests of the scan: a number is found, the new
\* number is not negative, the target name does not exist
OffAccepted(folder_name) ==
    /\ OriginalNumber(folder_name) # <<>>
    /\ OriginalNumber(folder_name)[1] + offset >= 0
    /\ IntToStr(OriginalNumber(folder_name)[1] + offset) \notin DOMAIN dir

\* sorted(folders)
SortedNames(listing) ==
    LET sorted == SortByKey([i \in 1..Len(listing) |->
                                [k |-> Codes(listing[i]), v |-> listing[i]]])
    IN  [i \in 1..Len(sorted) |-> sorted[i].v]

\* the scan, the preview and the dry-run test
OffPlan ==
    /\ script = "offset"
    /\ pc = "start"
    /\ \E listing \in Listings(DOMAIN dir) :
          LET accepted == SelectSeq(SortedNames(listing), OffAccepted)
          IN  /\ rename_operations' =
                    [i \in 1..Len(accepted) |->
                        [old_name |-> accepted[i],
                         new_name |-> IntToStr(OriginalNumber(accepted[i])[1] + offset)]]
              /\ skipped_folders' =
                    SelectSeq(SortedNames(listing), LAMBDA f : ~OffAccepted(f))
              /\ pc' = IF Len(accepted) = 0 \/ dry_run THEN "done" ELSE "commit"
    /\ idx' = 1
    /\ UNCHANGED <<dir, temp_mapping, counts, oslog>>
    /\ RenameFrame

OffCommitStep == script = "offset" /\ CommitStep

OffCommitEnd == script = "offset" /\ CommitEnd

OffsetInit ==
    /\ SplitIdle
    /\ AppIdle
    /\ script = "offset"
    /\ offset \in Offsets
    /\ sort_by = "number"
    /\ prefix_to_remove = None
    /\ RenameInit(OffsetNames)

OffsetNext == OffPlan \/ OffCommitStep \/ OffCommitEnd

SpecOffset == OffsetInit /\ [][OffsetNext]_vars

----------------------------------------------------------------------------
(* Properties of rename_folders_with_offset *)

\* C9: in a committing run in which the system refuses no move, every folder
\* named by a pure integer k ends up named str(k + offset) when k + offset >= 0
\* and no folder had that name, and otherwise keeps its name and is listed as
\* skipped.
C9_OffsetRename ==
    (script = "offset" /\ pc = "done" /\ ~dry_run /\ locked = {}) =>
        \A n \in DOMAIN dir0 :
            IsDigitStr(n) =>
                LET new_number == ParseInt(n) + offset
                    new_name == IntToStr(new_number)
                IN  IF new_number >= 0 /\ new_name \notin DOMAIN dir0
                    THEN new_name \in DOMAIN dir /\ dir[new_name] = dir0[n]
                    ELSE /\ n \in DOMAIN dir /\ dir[n] = dir0[n]
                         /\ \E i \in 1..Len(skipped_folders) : skipped_folders[i] = n

----------------------------------------------------------------------------
(* rename_folders_sorted_sequential *)

SortedSeqNames ==
    {<<"a", "1">>, <<"A", "1">>, <<"b", "1">>, <<"x">>, <<"1", "0">>, <<"2">>}

SortModes == {"number", "alphabet"}

\* str.lower() on one character
LowerChar(c) == IF c = "A" THEN "a" ELSE c

Lower(name) == [i \in 1..Len(name) |-> LowerChar(name[i])]

\* the key the sort compares: (isinstance(sort_key, str), sort_key) in number
\* mode, False ordering before True; folder_name.lower() in alphabet mode
SortKey(folder_name) ==
    IF sort_by = "number"
    THEN IF LastNumber(folder_name) # <<>>
         THEN <<0, LastNumber(folder_name)[1]>>
         ELSE <<1>> \o Codes(folder_name)
    ELSE Codes(Lower(folder_name))

\* folder_sort_data after its sort
FolderSortData(listing) ==
    SortByKey([i \in 1..Len(listing) |-> [k |-> SortKey(listing[i]), v |-> listing[i]]])

\* a variant of the mapping that numbers a folder by the place of its key
IndexOfKey(folder_sort_data, folder_name) ==
    (CHOOSE i \in 1..Len(folder_sort_data) :
        /\ folder_sort_data[i].k = SortKey(folder_name)
        /\ \A j \in 1..(i - 1) : folder_sort_data[j].k # SortKey(folder_name)) - 1

\* folder_mapping[folder_name] = idx, for idx, (folder_name, _) in enumerate
IndexOf(folder_sort_data, folder_name) ==
    (CHOOSE i \in 1..Len(folder_sort_data) :
        /\ folder_sort_data[i].v = folder_name
        /\ \A j \in (i + 1)..Len(folder_sort_data) :
              folder_sort_data[j].v # folder_name) - 1

\* the sort, the mapping, the scan for existing targets and the dry-run test
SrtPlan ==
    /\ script = "sorted"
    /\ pc = "start"
    /\ \E listing \in Listings(DOMAIN dir) :
       \E mapping \in {[f \in DOMAIN dir |-> IndexOf(FolderSortData(listing), f)]} :
          LET free == SelectSeq(listing,
                          LAMBDA f : IntToStr(mapping[f]) \notin DOMAIN dir)
          IN  /\ folder_mapping' = mapping
              /\ rename_operations' =
                    [i \in 1..Len(free) |->
                        [old_name |-> free[i], new_name |-> IntToStr(mapping[free[i]])]]
              /\ skipped_folders' =
                    SelectSeq(listing, LAMBDA f : IntToStr(mapping[f]) \in DOMAIN dir)
              /\ pc' = IF Len(free) = 0 \/ dry_run THEN "done" ELSE "commit"
    /\ idx' = 1
    /\ UNCHANGED <<dir, temp_mapping, counts, oslog>>
    /\ InputsFrame

SrtCommitStep == script = "sorted" /\ CommitStep

SrtCommitEnd == script = "sorted" /\ CommitEnd

SortedSeqInit ==
    /\ SplitIdle
    /\ AppIdle
    /\ script = "sorted"
    /\ offset = 0
    /\ sort_by \in SortModes
    /\ prefix_to_remove = None
    /\ RenameInit(SortedSeqNames)

SortedSeqNext == SrtPlan \/ SrtCommitStep \/ SrtCommitEnd

SpecSortedSeq == SortedSeqInit /\ [][SortedSeqNext]_vars

----------------------------------------------------------------------------
(* Properties of rename_folders_sorted_sequential *)

\* C10: once the mapping is built, in either sort mode, every folder of the
\* directory has one ID, no ID is used twice, and the IDs are exactly
\* 0 .. N-1 for the N folders.
C10_MappingBijection ==
    (script = "sorted" /\ pc # "start") =>
        /\ DOMAIN folder_mapping = DOMAIN dir0
        /\ {folder_mapping[f] : f \in DOMAIN dir0} = 0..(Cardinality(DOMAIN dir0) - 1)
        /\ \A f, g \in DOMAIN dir0 : folder_mapping[f] = folder_mapping[g] => f = g

\* two folders whose sort keys tie, with a third whose key is of the other
\* type in number mode, have been given IDs
C10_Witness ==
    /\ script = "sorted" /\ pc = "done"
    /\ Cardinality(DOMAIN dir0) = 3
    /\ \E f, g \in DOMAIN dir0 : f # g /\ SortKey(f) = SortKey(g)
    /\ sort_by = "number" =>
          \E f, g \in DOMAIN dir0 : SortKey(f)[1] = 0 /\ SortKey(g)[1] = 1

----------------------------------------------------------------------------
(* rename_folders_with_mapping: the string-keyed normalizer *)

StringKeyedNames ==
    {<<"p", "_", "a">>, <<"p", "_", "b">>, <<"b">>, <<"A">>, <<"0">>, <<"1">>}

StringKeyedPrefixes == {None, <<"p", "_">>}

\* the part of the name that is sorted: the name without the prefix when a
\* prefix is given and the name starts with it
StrSortKey(folder) ==
    IF prefix_to_remove # None /\ prefix_to_remove # <<>>
       /\ StartsWith(folder, prefix_to_remove)
    THEN SubSeq(folder, Len(prefix_to_remove) + 1, Len(folder))
    ELSE folder

\* folder_sort_keys after sort(key=lambda x: x[1].lower())
FolderSortKeys(listing) ==
    SortByKey([i \in 1..Len(listing) |->
                  [k |-> Codes(Lower(StrSortKey(listing[i]))), v |-> listing[i]]])

\* the sort, the mapping, the scan for existing targets and the dry-run test
StrPlan ==
    /\ script = "strings"
    /\ pc = "start"
    /\ \E listing \in Listings(DOMAIN dir) :
       \E mapping \in {[f \in DOMAIN dir |-> IndexOf(FolderSortKeys(listing), f)]} :
          LET free == SelectSeq(listing,
                          LAMBDA f : IntToStr(mapping[f]) \notin DOMAIN dir)
          IN  /\ folder_mapping' = mapping
              /\ rename_operations' =
                    [i \in 1..Len(free) |->
                        [old_name |-> free[i], new_name |-> IntToStr(mapping[free[i]])]]
              /\ skipped_folders' =
                    SelectSeq(listing, LAMBDA f : IntToStr(mapping[f]) \in DOMAIN dir)
              /\ pc' = IF DOMAIN dir = {} \/ dry_run THEN "done" ELSE "commit"
    /\ idx' = 1
    /\ UNCHANGED <<dir, temp_mapping, counts, oslog>>
    /\ InputsFrame

StrCommitStep == script = "strings" /\ CommitStep

StrCommitEnd == script = "strings" /\ CommitEnd

\* both sort-rank normalizers
SortRankInit ==
    /\ SplitIdle
    /\ AppIdle
    /\ offset = 0
    /\ \/ /\ script = "sorted"
          /\ sort_by \in SortModes
          /\ prefix_to_remove = None
          /\ RenameInit(SortedSeqNames)
       \/ /\ script = "strings"
          /\ sort_by = "alphabet"
          /\ prefix_to_remove \in StringKeyedPrefixes
          /\ RenameInit(StringKeyedNames)

SortRankNext ==
    \/ SrtPlan \/ SrtCommitStep \/ SrtCommitEnd
    \/ StrPlan \/ StrCommitStep \/ StrCommitEnd

SpecSortRank == SortRankInit /\ [][SortRankNext]_vars

----------------------------------------------------------------------------
(* Properties of the sort-rank normalizers *)

RenameFailed == \E i \in 1..Len(oslog) : ~oslog[i].ok

DecimalNames(n) == {IntToStr(i) : i \in 0..(n - 1)}

\* C11: after a committing run of a sort-rank normalizer in which no rename
\* failed, the folder names are exactly the decimal strings 0 .. N-1 for the
\* N folders of the directory.
C11_NamesAreRanks ==
    (pc = "done" /\ ~dry_run /\ ~RenameFailed) =>
        DOMAIN dir = DecimalNames(Cardinality(DOMAIN dir0))

\* the mapping the normalizer builds when os.listdir returns `listing`
MappingFor(listing) ==
    IF script = "sorted"
    THEN [f \in DOMAIN dir0 |-> IndexOf(FolderSortData(listing), f)]
    ELSE [f \in DOMAIN dir0 |-> IndexOf(FolderSortKeys(listing), f)]

\* the key the normalizer's sort compares for a folder
RankKey(f) ==
    IF script = "sorted" THEN SortKey(f) ELSE Codes(Lower(StrSortKey(f)))

\* C28: the folder-to-ID mapping a sort-rank normalizer builds depends on the
\* set of folder names alone: whatever order the directory listing returns
\* them in, ties in the sort key included, the mapping is the same.
C28_MappingOfNamesAlone ==
    pc # "start" =>
        \A listing \in Listings(DOMAIN dir0) : MappingFor(listing) = folder_mapping

\* the same, for directories in which no two folders tie in the sort key
MappingOfDistinctKeys ==
    (pc # "start" /\ \A f, g \in DOMAIN dir0 : RankKey(f) = RankKey(g) => f = g) =>
        \A listing \in Listings(DOMAIN dir0) : MappingFor(listing) = folder_mapping

----------------------------------------------------------------------------
(* rename_folders_extract_and_offset: the prefix+number offset normalizer; *)
(* its prefix_pattern argument is held in prefix_to_remove                  *)

ExtractNames ==
    {<<"c", "1">>, <<"c", "0", "1">>, <<"c", "2">>, <<"b", "1">>, <<"0">>, <<"x">>}

ExtractPrefixes == {None, <<"c">>}

\* [A-Za-z]
Letters == {"A", "C", "a", "b", "c", "g", "j", "n", "o", "p", "t", "w", "x"}

\* the length of the longest run of letters that `name` starts with
RECURSIVE LetterRun(_)
LetterRun(name) ==
    IF Len(name) > 0 /\ name[1] \in Letters THEN 1 + LetterRun(Tail(name)) ELSE 0

\* re.match(r'^([A-Za-z]+)\d+$', sample_folder): group 1, or None
AutoDetect(sample_folder) ==
    LET n == LetterRun(sample_folder)
    IN  IF n >= 1 /\ IsDigitStr(SubSeq(sample_folder, n + 1, Len(sample_folder)))
        THEN SubSeq(sample_folder, 1, n)
        ELSE None

\* re.match(rf'^{re.escape(prefix_pattern)}(\d+)$', folder_name)
ExtMatches(pattern, folder_name) ==
    /\ StartsWith(folder_name, pattern)
    /\ IsDigitStr(SubSeq(folder_name, Len(pattern) + 1, Len(folder_name)))

ExtNumber(pattern, folder_name) ==
    ParseInt(SubSeq(folder_name, Len(pattern) + 1, Len(folder_name)))

\* the folder passes the three tests of the scan
ExtAccepted(pattern, folder_name) ==
    /\ ExtMatches(pattern, folder_name)
    /\ ExtNumber(pattern, folder_name) + offset >= 0
    /\ IntToStr(ExtNumber(pattern, folder_name) + offset) \notin DOMAIN dir

\* the auto-detection on folders[0], the scan, the preview and the dry-run test
ExtPlan ==
    /\ script = "extract"
    /\ pc = "start"
    /\ \E listing \in Listings(DOMAIN dir) :
       \E pattern \in {IF prefix_to_remove = None /\ Len(listing) > 0
                       THEN AutoDetect(listing[1]) ELSE prefix_to_remove} :
          LET sorted == IF pattern = None THEN <<>> ELSE SortedNames(listing)
              accepted == SelectSeq(sorted, LAMBDA f : ExtAccepted(pattern, f))
          IN  /\ rename_operations' =
                    [i \in 1..Len(accepted) |->
                        [old_name |-> accepted[i],
                         new_name |-> IntToStr(ExtNumber(pattern, accepted[i]) + offset)]]
              /\ skipped_folders' =
                    SelectSeq(sorted, LAMBDA f : ~ExtAccepted(pattern, f))
              /\ pc' = IF Len(accepted) = 0 \/ dry_run THEN "done" ELSE "commit"
    /\ idx' = 1
    /\ UNCHANGED <<dir, temp_mapping, counts, oslog>>
    /\ RenameFrame

ExtCommitStep == script = "extract" /\ CommitStep

ExtCommitEnd == script = "extract" /\ CommitEnd

----------------------------------------------------------------------------
(* The main path of s01_rename_folders_cows1.py: analysis, preview with the *)
(* detected prefix, then the committing call                                *)

\* the prefix written in the committing call of __main__
CowPrefix == <<"C", "o", "w">>

CowNames ==
    {<<"C", "o", "w", "1">>, <<"C", "o", "w", "2">>, <<"b", "1">>, <<"b", "2">>,
     <<"0">>, <<"x">>}

\* analyze_prefix_patterns: the prefix with the most prefix+number folders,
\* the first one met in listing order among those with the most, or None
analyze_prefix_patterns(listing) ==
    LET matched == SelectSeq(listing, LAMBDA f : AutoDetect(f) # None)
        count(p) == Cardinality({i \in 1..Len(matched) : AutoDetect(matched[i]) = p})
    IN  IF matched = <<>> THEN None
        ELSE LET most_common ==
                     CHOOSE i \in 1..Len(matched) :
                        /\ \A j \in 1..Len(matched) :
                              count(AutoDetect(matched[j])) <= count(AutoDetect(matched[i]))
                        /\ \A j \in 1..(i - 1) :
                              count(AutoDetect(matched[j])) < count(AutoDetect(matched[i]))
             IN  AutoDetect(matched[most_common])

\* the pattern a call works with: the argument, or the one detected on
\* folders[0] when the argument is None
PatternOfCall(pattern_arg, listing) ==
    IF pattern_arg = None /\ Len(listing) > 0
    THEN AutoDetect(listing[1]) ELSE pattern_arg

\* rename_operations of a call of rename_folders_extract_and_offset
OperationsOfCall(pattern_arg, listing) ==
    LET pattern == PatternOfCall(pattern_arg, listing)
        sorted == IF pattern = None THEN <<>> ELSE SortedNames(listing)
        accepted == SelectSeq(sorted, LAMBDA f : ExtAccepted(pattern, f))
    IN  [i \in 1..Len(accepted) |->
            [old_name |-> accepted[i],
             new_name |-> IntToStr(ExtNumber(pattern, accepted[i]) + offset)]]

SkippedOfCall(pattern_arg, listing) ==
    LET pattern == PatternOfCall(pattern_arg, listing)
        sorted == IF pattern = None THEN <<>> ELSE SortedNames(listing)
    IN  SelectSeq(sorted, LAMBDA f : ~ExtAccepted(pattern, f))

\* step 0: detected_prefix = analyze_prefix_patterns(directory_path)
MainAnalyze ==
    /\ script = "main"
    /\ pc = "start"
    /\ \E listing \in Listings(DOMAIN dir) :
          prefix_to_remove' = analyze_prefix_patterns(listing)
    /\ pc' = "analyzed"
    /\ UNCHANGED <<splitVars, appVars, script, dry_run, platform, empty_dirs, locked,
                   dir0, dir, idx, rename_operations, temp_mapping, skipped_folders,
                   counts, oslog, offset, sort_by, folder_mapping, report, preview>>

\* step 1: the call with prefix_pattern=detected_prefix and dry_run=True
MainPreview ==
    /\ script = "main"
    /\ pc = "analyzed"
    /\ \E listing \in Listings(DOMAIN dir) :
          preview' = OperationsOfCall(prefix_to_remove, listing)
    /\ pc' = "previewed"
    /\ dry_run' = TRUE
    /\ UNCHANGED <<splitVars, appVars, script, platform, empty_dirs, locked,
                   dir0, dir, idx, rename_operations, temp_mapping, skipped_folders,
                   counts, oslog, offset, sort_by, folder_mapping, report,
                   prefix_to_remove>>

\* step 2: the call with prefix_pattern="Cow" and dry_run=False, up to its loop
MainCommitPlan ==
    /\ script = "main"
    /\ pc = "previewed"
    /\ \E listing \in Listings(DOMAIN dir) :
          /\ rename_operations' = OperationsOfCall(CowPrefix, listing)
          /\ skipped_folders' = SkippedOfCall(CowPrefix, listing)
          /\ pc' = IF Len(OperationsOfCall(CowPrefix, listing)) = 0
                   THEN "done" ELSE "commit"
    /\ idx' = 1
    /\ dry_run' = FALSE
    /\ UNCHANGED <<splitVars, appVars, script, platform, empty_dirs, locked,
                   dir0, dir, temp_mapping, counts, oslog, offset, sort_by,
                   folder_mapping, report, prefix_to_remove, preview>>

MainCommitStep == script = "main" /\ CommitStep

MainCommitEnd == script = "main" /\ CommitEnd

CowsMainInit ==
    /\ SplitIdle
    /\ AppIdle
    /\ script = "main"
    /\ offset = -1
    /\ sort_by = "number"
    /\ prefix_to_remove = None
    /\ RenameInit(CowNames)
    /\ dry_run = TRUE

CowsMainNext ==
    MainAnalyze \/ MainPreview \/ MainCommitPlan \/ MainCommitStep \/ MainCommitEnd

SpecCowsMain == CowsMainInit /\ [][CowsMainNext]_vars

----------------------------------------------------------------------------
(* Properties of the main path of s01_rename_folders_cows1.py *)

\* the (old, new) pairs the preview showed
RenamesShown == {<<preview[i].old_name, preview[i].new_name>> : i \in 1..Len(preview)}

\* the (old, new) pairs the committing call gave to os.rename
RenamesAttempted == {<<oslog[i].src, oslog[i].dst>> : i \in 1..Len(oslog)}

\* C30: on the main path, the renames the committing step attempts are the
\* renames the preview step showed for the same directory, whatever the
\* directory holds and whatever prefix the analysis detects, none included.
C30_CommitMatchesPreview ==
    (script = "main" /\ pc = "done") => RenamesAttempted = RenamesShown

\* the same, for directories in which the analysis detects the prefix of the
\* committing call or no folder has a prefix+number name
CommitMatchesPreviewOfCow ==
    (script = "main" /\ pc = "done"
       /\ \A f \in DOMAIN dir0 : AutoDetect(f) \in {None, CowPrefix}) =>
        RenamesAttempted = RenamesShown

----------------------------------------------------------------------------
(* rename_folders_remove_prefix: the prefix-strip normalizer *)

StripNames ==
    {<<"p", "_", "1">>, <<"b", "_", "1">>, <<"p", "_", "a", "_", "1">>,
     <<"p", "_", "2">>, <<"1">>, <<"p", "_">>}

StripPrefixes == {None, <<"p">>}

\* folder_name.split("_")[-1]
RECURSIVE LastPart(_)
LastPart(name) ==
    IF \E i \in 1..Len(name) : name[i] = "_"
    THEN LastPart(Tail(name))
    ELSE name

\* new_name as a one-element tuple, or <<>> when the folder does not match
StripNewName(folder_name) ==
    IF prefix_to_remove # None /\ prefix_to_remove # <<>>
    THEN IF StartsWith(folder_name, prefix_to_remove \o <<"_">>)
         THEN <<SubSeq(folder_name, Len(prefix_to_remove) + 2, Len(folder_name))>>
         ELSE <<>>
    ELSE IF \E i \in 1..Len(folder_name) : folder_name[i] = "_"
         THEN <<LastPart(folder_name)>>
         ELSE <<>>

\* os.path.exists(os.path.join(directory_path, new_name)): an empty new_name
\* gives the path of the directory itself
StripTargetExists(new_name) == new_name = <<>> \/ new_name \in DOMAIN dir

StripAccepted(folder_name) ==
    /\ StripNewName(folder_name) # <<>>
    /\ ~StripTargetExists(StripNewName(folder_name)[1])

\* the scan, the preview and the dry-run test; skips are only printed
StripPlan ==
    /\ script = "strip"
    /\ pc = "start"
    /\ \E listing \in Listings(DOMAIN dir) :
          LET accepted == SelectSeq(SortedNames(listing), StripAccepted)
          IN  /\ rename_operations' =
                    [i \in 1..Len(accepted) |->
                        [old_name |-> accepted[i],
                         new_name |-> StripNewName(accepted[i])[1]]]
              /\ pc' = IF Len(accepted) = 0 \/ dry_run THEN "done" ELSE "commit"
    /\ idx' = 1
    /\ UNCHANGED <<dir, temp_mapping, skipped_folders, counts, oslog>>
    /\ RenameFrame

StripCommitStep == script = "strip" /\ CommitStep

StripCommitEnd == script = "strip" /\ CommitEnd

----------------------------------------------------------------------------
(* The five single-pass normalizers together *)

SinglePassInit ==
    /\ SplitIdle
    /\ AppIdle
    /\ \/ /\ script = "offset"
          /\ offset \in Offsets
          /\ sort_by = "number"
          /\ prefix_to_remove = None
          /\ RenameInit(OffsetNames)
       \/ /\ script = "extract"
          /\ offset \in Offsets
          /\ sort_by = "number"
          /\ prefix_to_remove \in ExtractPrefixes
          /\ RenameInit(ExtractNames)
       \/ /\ script = "sorted"
          /\ offset = 0
          /\ sort_by \in SortModes
          /\ prefix_to_remove = None
          /\ RenameInit(SortedSeqNames)
       \/ /\ script = "strip"
          /\ offset = 0
          /\ sort_by = "number"
          /\ prefix_to_remove \in StripPrefixes
          /\ RenameInit(StripNames)
       \/ /\ script = "strings"
          /\ offset = 0
          /\ sort_by = "alphabet"
          /\ prefix_to_remove \in StringKeyedPrefixes
          /\ RenameInit(StringKeyedNames)

SinglePassNext ==
    \/ OffPlan \/ OffCommitStep \/ OffCommitEnd
    \/ ExtPlan \/ ExtCommitStep \/ ExtCommitEnd
    \/ SrtPlan \/ SrtCommitStep \/ SrtCommitEnd
    \/ StripPlan \/ StripCommitStep \/ StripCommitEnd
    \/ StrPlan \/ StrCommitStep \/ StrCommitEnd

SpecSinglePass == SinglePassInit /\ [][SinglePassNext]_vars

----------------------------------------------------------------------------
(* Properties of the single-pass normalizers *)

\* the folders a directory holds, whatever their names
FoldersOf(d) == {d[n] : n \in DOMAIN d}

\* C12: the rename a single-pass normalizer is about to execute has a target
\* name that does not exist in the directory at that moment, and no folder
\* of the directory is ever overwritten.
C12_TargetFree ==
    /\ (pc = "commit" /\ idx <= Len(rename_operations)) =>
          rename_operations[idx].new_name \notin DOMAIN dir
    /\ FoldersOf(dir) = FoldersOf(dir0)

----------------------------------------------------------------------------
(* The seven folder normalizers together *)

\* any normalizer on any of its directories, the system refusing no move
NormalizersInit == (SinglePassInit \/ TwoPhaseInit) /\ locked = {}

NormalizersNext == SinglePassNext \/ TwoPhaseNext

SpecNormalizers == NormalizersInit /\ [][NormalizersNext]_vars

\* C13: in a call with dry_run=True the directory keeps its folders under
\* their names at every step, and no os.rename is made.
C13_DryRunFrame ==
    dry_run => (dir = dir0 /\ oslog = <<>>)

\* a dry run has returned after planning at least one rename
C13_Witness ==
    /\ dry_run
    /\ pc = "done"
    /\ rename_operations # <<>>
    /\ script \in {"decrement", "prefix"}

----------------------------------------------------------------------------
(* The training entry point: train.py *)

\* the value argparse gives a flag that is not on the command line
ArgNone == "<None>"

\* bool(x) of a string argument: None and the empty string are false
Truthy(x) == x # ArgNone /\ x # ""

\* bool(x) of a list argument, None standing for the flag that is not given:
\* None and the empty list are false
TruthyList(x) == x # None /\ x # <<>>

\* the names under which trainers are registered
ModelNames == {"CLIPZeroShot", "SIGLIPZeroShot", "SIGLIPAdapter"}

\* zero_shot_models
zero_shot_models == {"CLIPZeroShot", "SIGLIPZeroShot"}

CommonModelKeys ==
    {"NAME", "METRIC_LOSS_TYPE", "NO_MARGIN", "IF_LABELSMOOTH", "ID_LOSS_WEIGHT",
     "TRIPLET_LOSS_WEIGHT"}

\* get_cfg_default(): every registered model has its block under MODEL
DefaultCfg ==
    [GPU |-> 0, SEED |-> 1, OUTPUT_DIR |-> "./output/",
     DATASET |-> [ROOT |-> "./data/", NAME |-> "", SOURCE_DOMAINS |-> <<>>,
                  TARGET_DOMAINS |-> <<>>],
     MODEL |-> [k \in CommonModelKeys \cup ModelNames |->
                   IF k = "NAME" THEN ""
                   ELSE IF k \in ModelNames THEN [CKPT |-> "default"]
                   ELSE "default"]]

\* the model config files: the overrides each holds, by section
ConfigFiles ==
    [clipzeroshot |->
        [DATASET |-> <<>>,
         MODEL |-> [k \in {"NAME", "CLIPZeroShot"} |->
                       IF k = "NAME" THEN "CLIPZeroShot" ELSE [CKPT |-> "clip"]]],
     siglipadapter |->
        [DATASET |-> [NAME |-> "Turtles", SOURCE_DOMAINS |-> <<"Turtles">>],
         MODEL |-> [k \in {"NAME", "SIGLIPAdapter", "ID_LOSS_WEIGHT"} |->
                       IF k = "NAME" THEN "SIGLIPAdapter"
                       ELSE IF k = "SIGLIPAdapter" THEN [CKPT |-> "siglip"]
                       ELSE "file"]],
     lossonly |->
        [DATASET |-> [TARGET_DOMAINS |-> <<"Cows">>],
         MODEL |-> [k \in {"NO_MARGIN"} |-> "file"]]]

\* the command lines
ArgSets ==
    [gpu : {-1, 0}, seed : {-1, 42}, root : {"./data/"},
     output_dir : {"./output/", "out"},
     dataset : {ArgNone, "Cows"},
     source_domains : {None, <<"Cows">>},
     target_domains : {None, <<"Cows", "Turtles">>},
     model : {ArgNone, ""} \cup ModelNames,
     model_config_file : {ArgNone} \cup DOMAIN ConfigFiles]

\* one section of the node with the overrides of the file laid over it
MergeSection(section, overrides) ==
    [k \in DOMAIN section \cup DOMAIN overrides |->
        IF k \in DOMAIN overrides THEN overrides[k] ELSE section[k]]

\* cfg.merge_from_file(file)
MergeFromFile(c, file) ==
    [c EXCEPT !.DATASET = MergeSection(c.DATASET, ConfigFiles[file].DATASET),
              !.MODEL = MergeSection(c.MODEL, ConfigFiles[file].MODEL)]

\* a variant of the overlay that takes the argument whatever it is
OverlayAlways(value, arg) == arg

\* if arg: value = arg
Overlay(value, arg) == IF Truthy(arg) THEN arg ELSE value

\* the same for a list argument
OverlayList(value, arg) == IF TruthyList(arg) THEN arg ELSE value

\* reset_cfg_from_args(cfg, args)
ResetCfgFromArgs(c, a) ==
    [c EXCEPT !.GPU = a.gpu,
              !.OUTPUT_DIR = a.output_dir,
              !.SEED = a.seed,
              !.DATASET = [c.DATASET EXCEPT
                              !.ROOT = a.root,
                              !.NAME = Overlay(@, a.dataset),
                              !.SOURCE_DOMAINS = OverlayList(@, a.source_domains),
                              !.TARGET_DOMAINS = OverlayList(@, a.target_domains)],
              !.MODEL = [c.MODEL EXCEPT !.NAME = Overlay(@, a.model)]]

\* model_name = model or cfg.MODEL.NAME
ActiveModelName(c, model) == IF Truthy(model) THEN model ELSE c.MODEL.NAME

\* a variant of the preserved keys that keeps every registered model's block
PreserveKeysAllModels(model_name) == CommonModelKeys \cup {model_name} \cup ModelNames

\* preserve_keys
PreserveKeys(model_name) == CommonModelKeys \cup {model_name}

\* clean_cfg(cfg, model)
CleanCfg(c, model) ==
    [c EXCEPT !.MODEL =
        [k \in DOMAIN c.MODEL \cap PreserveKeys(ActiveModelName(c, model)) |->
            c.MODEL[k]]]

TrainFrame ==
    UNCHANGED <<splitVars, renameVars, orgVars, launchVars, args>>

\* cfg = get_cfg_default()
GetCfgDefault ==
    /\ tpc = "start"
    /\ cfg' = DefaultCfg
    /\ calls' = Append(calls, "defaults")
    /\ tpc' = IF Truthy(args.model_config_file) THEN "merge" ELSE "overlay"
    /\ UNCHANGED <<cfg_pre, frozen>>
    /\ TrainFrame

\* cfg.merge_from_file(args.model_config_file)
MergeConfigFile ==
    /\ tpc = "merge"
    /\ cfg' = MergeFromFile(cfg, args.model_config_file)
    /\ calls' = Append(calls, "merge")
    /\ tpc' = "overlay"
    /\ UNCHANGED <<cfg_pre, frozen>>
    /\ TrainFrame

\* reset_cfg_from_args(cfg, args)
ResetCfg ==
    /\ tpc = "overlay"
    /\ cfg' = ResetCfgFromArgs(cfg, args)
    /\ calls' = Append(calls, "overlay")
    /\ tpc' = "prune"
    /\ UNCHANGED <<cfg_pre, frozen>>
    /\ TrainFrame

\* clean_cfg(cfg, args.model)
CleanCfgStep ==
    /\ tpc = "prune"
    /\ cfg_pre' = cfg
    /\ cfg' = CleanCfg(cfg, args.model)
    /\ calls' = Append(calls, "prune")
    /\ tpc' = "freeze"
    /\ UNCHANGED frozen
    /\ TrainFrame

\* cfg.freeze(); setup_cfg returns
Freeze ==
    /\ tpc = "freeze"
    /\ frozen' = TRUE
    /\ calls' = Append(calls, "freeze")
    /\ tpc' = "build"
    /\ UNCHANGED <<cfg, cfg_pre>>
    /\ TrainFrame

\* trainer = build_trainer(cfg): an unregistered name is a fatal error
BuildTrainer ==
    /\ tpc = "build"
    /\ calls' = Append(calls, "build_trainer")
    /\ tpc' = IF cfg.MODEL.NAME \in ModelNames THEN "dispatch" ELSE "raised"
    /\ UNCHANGED <<cfg, cfg_pre, frozen>>
    /\ TrainFrame

\* if args.model in zero_shot_models: trainer.test()
TrainerTest ==
    /\ tpc = "dispatch"
    /\ args.model \in zero_shot_models
    /\ calls' = Append(calls, "test")
    /\ tpc' = "done"
    /\ UNCHANGED <<cfg, cfg_pre, frozen>>
    /\ TrainFrame

\* else: trainer.train()
TrainerTrain ==
    /\ tpc = "dispatch"
    /\ args.model \notin zero_shot_models
    /\ calls' = Append(calls, "train")
    /\ tpc' = "done"
    /\ UNCHANGED <<cfg, cfg_pre, frozen>>
    /\ TrainFrame

TrainInit ==
    /\ SplitIdle
    /\ RenameIdle
    /\ OrgIdle
    /\ LaunchIdle
    /\ args \in ArgSets
    /\ cfg = <<>>
    /\ cfg_pre = <<>>
    /\ frozen = FALSE
    /\ tpc = "start"
    /\ calls = <<>>

TrainNext ==
    \/ GetCfgDefault \/ MergeConfigFile \/ ResetCfg \/ CleanCfgStep \/ Freeze
    \/ BuildTrainer \/ TrainerTest \/ TrainerTrain

SpecTrain == TrainInit /\ [][TrainNext]_vars

----------------------------------------------------------------------------
(* Properties of the training entry point *)

Called(step) == \E i \in 1..Len(calls) : calls[i] = step

\* C14: once clean_cfg has run, the keys of cfg.MODEL are among the common
\* keys and the selected model's name (the model argument when given, else
\* cfg.MODEL.NAME), so no other model's block is left, and every preserved key
\* that clean_cfg received is still there with its value.
C14_CleanCfg ==
    Called("prune") =>
        LET selected == IF Truthy(args.model) THEN args.model ELSE cfg_pre.MODEL.NAME
        IN  /\ DOMAIN cfg.MODEL \subseteq CommonModelKeys \cup {selected}
            /\ \A m \in ModelNames \ {selected} : m \notin DOMAIN cfg.MODEL
            /\ \A k \in DOMAIN cfg_pre.MODEL \cap (CommonModelKeys \cup {selected}) :
                  k \in DOMAIN cfg.MODEL /\ cfg.MODEL[k] = cfg_pre.MODEL[k]

\* clean_cfg has pruned two blocks, the model being named by the file only
C14_Witness ==
    /\ Called("prune")
    /\ ~Truthy(args.model)
    /\ cfg_pre.MODEL.NAME \in ModelNames
    /\ cfg_pre.MODEL.NAME \in DOMAIN cfg.MODEL
    /\ Cardinality(DOMAIN cfg_pre.MODEL \ DOMAIN cfg.MODEL) = 2

\* C15: when main has returned, exactly trainer.test was called if the name
\* in the frozen configuration, under which the trainer was built, is a
\* zero-shot model, and trainer.train was called otherwise.
C15_ZeroShotDispatch ==
    tpc = "done" =>
        IF cfg.MODEL.NAME \in zero_shot_models
        THEN Called("test") /\ ~Called("train")
        ELSE Called("train")

\* the configuration after the file merge, before the overlay of the arguments
MergedCfg ==
    IF Truthy(args.model_config_file)
    THEN MergeFromFile(DefaultCfg, args.model_config_file)
    ELSE DefaultCfg

\* the position of a step in calls, 0 when it was not made
StepAt(step) ==
    IF Called(step) THEN CHOOSE i \in 1..Len(calls) : calls[i] = step ELSE 0

\* C16: in the configuration setup_cfg returns, GPU, OUTPUT_DIR, SEED and
\* DATASET.ROOT are the command-line values; DATASET.NAME, SOURCE_DOMAINS,
\* TARGET_DOMAINS and MODEL.NAME are the command-line value when the flag was
\* given and else the value of the merged configuration; the steps were made
\* in the order defaults, merge, overlay, prune, freeze; and the trainer is
\* built on a frozen configuration.
C16_SetupCfg ==
    /\ Called("freeze") =>
          /\ cfg.GPU = args.gpu
          /\ cfg.OUTPUT_DIR = args.output_dir
          /\ cfg.SEED = args.seed
          /\ cfg.DATASET.ROOT = args.root
          /\ cfg.DATASET.NAME =
                IF Truthy(args.dataset) THEN args.dataset ELSE MergedCfg.DATASET.NAME
          /\ cfg.DATASET.SOURCE_DOMAINS =
                IF TruthyList(args.source_domains) THEN args.source_domains
                ELSE MergedCfg.DATASET.SOURCE_DOMAINS
          /\ cfg.DATASET.TARGET_DOMAINS =
                IF TruthyList(args.target_domains) THEN args.target_domains
                ELSE MergedCfg.DATASET.TARGET_DOMAINS
          /\ cfg.MODEL.NAME =
                IF Truthy(args.model) THEN args.model ELSE MergedCfg.MODEL.NAME
          /\ StepAt("defaults") = 1
          /\ Called("merge") = Truthy(args.model_config_file)
          /\ Called("merge") => StepAt("merge") = 2
          /\ StepAt("overlay") = StepAt("prune") - 1
          /\ StepAt("prune") = StepAt("freeze") - 1
          /\ StepAt("overlay") = IF Called("merge") THEN 3 ELSE 2
    /\ Called("build_trainer") => (frozen /\ StepAt("freeze") < StepAt("build_trainer"))
    /\ ~Called("freeze") => ~frozen

\* setup_cfg has returned for a command line that gives --dataset but not
\* --model nor --source-domains, with a config file that sets them
C16_Witness ==
    /\ Called("build_trainer")
    /\ Truthy(args.dataset)
    /\ ~Truthy(args.model)
    /\ ~TruthyList(args.source_domains)
    /\ args.model_config_file = "siglipadapter"
    /\ cfg.MODEL.NAME = "SIGLIPAdapter"

----------------------------------------------------------------------------
(* organize_images_by_identity: copy every image of the metadata table into
   a folder named by its identity *)

MaxRows == 2

Identities == {"A", "B"}

\* relative paths, as sequences of components
ImagePaths == {<<"x", "1.jpg">>, <<"y", "1.jpg">>, <<"x", "2.jpg">>}

Datasets == {"Zebra", "Cattle"}

\* the rows of metadata.csv
MetadataRows == [identity : Identities, path : ImagePaths, dataset : Datasets]

MetadataTables == UNION {[1..n -> MetadataRows] : n \in 0..MaxRows}

\* os.path.basename(relative_path)
Basename(path) == path[Len(path)]

\* df[df['dataset'].isin(target_species)]: the rows kept, in their order
RECURSIVE FilterRows(_, _)
FilterRows(rows, species) ==
    IF rows = <<>> THEN <<>>
    ELSE IF species = None \/ \E i \in 1..Len(species) : species[i] = Head(rows).dataset
         THEN <<Head(rows)>> \o FilterRows(Tail(rows), species)
         ELSE FilterRows(Tail(rows), species)

\* shutil.copy2 places the source's content under the target name, and never
\* keeps a second file of that name
CopyOver(folder, filename, source_path) ==
    [n \in DOMAIN folder \cup {filename} |->
        IF n = filename THEN source_path ELSE folder[n]]

\* shutil.copy2(source_path, target_path) into the folder of the identity
Copy2(out, identity, filename, source_path) ==
    [out EXCEPT ![identity] = CopyOver(@, filename, source_path)]

\* os.makedirs(target_folder, exist_ok=True)
MakeDirs(out, identity) ==
    [i \in DOMAIN out \cup {identity} |-> IF i \in DOMAIN out THEN out[i] ELSE <<>>]

OrgFrame ==
    UNCHANGED <<splitVars, renameVars, trainVars, launchVars, metadata,
                target_species, unreadable>>

\* read the table, filter it, return when nothing is left
OrgStart ==
    /\ org.pc = "start"
    /\ \E rows \in {FilterRows(metadata, target_species)} :
          org' = [org EXCEPT
                     !.rows = rows,
                     !.pc = IF target_species # None /\ rows = <<>>
                            THEN "returned" ELSE "rows"]
    /\ UNCHANGED <<source_files, output>>
    /\ OrgFrame

\* one pass of the loop over the rows
OrgRow ==
    /\ org.pc = "rows"
    /\ org.idx <= Len(org.rows)
    /\ LET row == org.rows[org.idx]
           made == MakeDirs(output, row.identity)
       IN  IF row.path \in source_files /\ row.path \notin unreadable
           THEN /\ output' = Copy2(made, row.identity, Basename(row.path), row.path)
                /\ org' = [org EXCEPT !.idx = @ + 1,
                                      !.success_count = @ + 1]
           ELSE /\ output' = made
                /\ org' = [org EXCEPT !.idx = @ + 1,
                                      !.failed_count = @ + 1,
                                      !.failed_files = Append(@, row.path)]
    /\ UNCHANGED source_files
    /\ OrgFrame

\* the statistics are printed
OrgEnd ==
    /\ org.pc = "rows"
    /\ org.idx > Len(org.rows)
    /\ org' = [org EXCEPT !.pc = "done"]
    /\ UNCHANGED <<source_files, output>>
    /\ OrgFrame

OrgInit ==
    /\ SplitIdle
    /\ RenameIdle
    /\ TrainIdle
    /\ LaunchIdle
    /\ metadata \in MetadataTables
    /\ target_species \in {None, <<"Zebra">>}
    /\ source_files \in SUBSET ImagePaths
    /\ unreadable \in {u \in SUBSET source_files : Cardinality(u) <= 1}
    /\ output = <<>>
    /\ org = [pc |-> "start", rows |-> <<>>, idx |-> 1, success_count |-> 0,
              failed_count |-> 0, failed_files |-> <<>>, sources0 |-> source_files]

OrgNext == OrgStart \/ OrgRow \/ OrgEnd

SpecOrganize == OrgInit /\ [][OrgNext]_vars

----------------------------------------------------------------------------
(* Properties of the organizer *)

\* the rows of the table that pass the filter, by position
RowsOf(identity) == {i \in 1..Len(org.rows) : org.rows[i].identity = identity}

Copyable(row) == row.path \in source_files /\ row.path \notin unreadable

\* C17: when the organizer has processed the table, every filtered row was
\* counted once, as a success when its source exists and was copied (the copy
\* then being under output/<identity>/<base filename>) and as a failure
\* otherwise; all rows were processed whichever failed; the source files are
\* the ones there were; and when every source exists and every row was a
\* success each identity folder holds as many files as the identity has rows.
C17_RowsCounted ==
    org.pc = "done" =>
        /\ org.success_count + org.failed_count = Len(org.rows)
        /\ org.success_count =
              Cardinality({i \in 1..Len(org.rows) : Copyable(org.rows[i])})
        /\ Len(org.failed_files) = org.failed_count
        /\ \A i \in 1..Len(org.rows) :
              Copyable(org.rows[i]) =>
                  /\ org.rows[i].identity \in DOMAIN output
                  /\ Basename(org.rows[i].path) \in DOMAIN output[org.rows[i].identity]
        /\ source_files = org.sources0
        /\ (org.failed_count = 0 /\ \A i \in 1..Len(org.rows) : org.rows[i].path \in source_files)
              => \A identity \in Identities :
                    Cardinality(RowsOf(identity)) =
                        IF identity \in DOMAIN output
                        THEN Cardinality(DOMAIN output[identity]) ELSE 0

----------------------------------------------------------------------------
(* run_experiment: the launcher builds the training command, runs it as a
   child process and reports how it ended *)

\* the configuration blocks the launcher offers
Presets ==
    {[DATASET |-> "ZindiTurtleRecall", MODEL |-> "CLIPZeroShot",
      CONFIG_FILE |-> "config/clipzeroshot.yaml"],
     [DATASET |-> "AAUZebraFish", MODEL |-> "SIGLIPZeroShot",
      CONFIG_FILE |-> "config/siglipzeroshot.yaml"],
     [DATASET |-> "AmvrakikosTurtles", MODEL |-> "SIGLIPAdapter",
      CONFIG_FILE |-> "config/siglipadapter.yaml"]}

\* the configuration variables at the top of the script
LauncherSettings ==
    {[GPU |-> 0, SEED |-> 42, ROOT |-> "F:/archive/data", OUTPUT_DIR |-> o,
      DATASET |-> p.DATASET, SOURCE_DOMAINS |-> <<p.DATASET>>,
      TARGET_DOMAINS |-> <<p.DATASET>>, MODEL |-> p.MODEL,
      CONFIG_FILE |-> p.CONFIG_FILE, ADDITIONAL_ARGS |-> a] :
        o \in {ArgNone, "out"}, p \in Presets,
        a \in {<<>>, <<"--some-flag", "value">>}}

\* datetime.now().strftime("%Y%m%d_%H%M%S")
Timestamps == {"20260101_000000", "20260101_000001"}

\* the exit statuses of the child: zero, non-zero, and negative when a signal
\* ended it
ReturnCodes == {-9, 0, 1, 2}

\* a command-line argument, as the pieces it is put together from
ArgOf(s) == <<s>>

RECURSIVE ArgsOf(_)
ArgsOf(list) ==
    IF list = <<>> THEN <<>> ELSE <<ArgOf(Head(list))>> \o ArgsOf(Tail(list))

\* output_dir of build_command
OutputDirOf(st, timestamp) ==
    IF st.OUTPUT_DIR = ArgNone
    THEN <<"output/", st.DATASET, "-", st.MODEL, "-", timestamp>>
    ELSE ArgOf(st.OUTPUT_DIR)

\* build_command()
BuildCommand(st, timestamp) ==
    [cmd |-> <<ArgOf("python"), ArgOf("train.py"),
               ArgOf("--gpu"), IntToStr(st.GPU),
               ArgOf("--seed"), IntToStr(st.SEED),
               ArgOf("--root"), ArgOf(st.ROOT),
               ArgOf("--output-dir"), OutputDirOf(st, timestamp),
               ArgOf("--dataset"), ArgOf(st.DATASET),
               ArgOf("--source-domains")>> \o ArgsOf(st.SOURCE_DOMAINS)
            \o <<ArgOf("--target-domains")>> \o ArgsOf(st.TARGET_DOMAINS)
            \o <<ArgOf("--model"), ArgOf(st.MODEL),
                 ArgOf("--model-config-file"), ArgOf(st.CONFIG_FILE)>>
            \o ArgsOf(st.ADDITIONAL_ARGS),
     output_dir |-> OutputDirOf(st, timestamp)]

\* a variant that passes the child's exit status on
ExitWithReturnCode(returncode) == returncode

\* sys.exit(1) of the CalledProcessError handler
ExitOnFailure(returncode) == 1

LaunchFrame == UNCHANGED <<splitVars, renameVars, trainVars, orgVars, settings>>

\* print_config()
PrintConfig ==
    /\ lpc = "start"
    /\ printed' = Append(printed, [line |-> "EXPERIMENT CONFIGURATION"])
    /\ lpc' = "build"
    /\ UNCHANGED <<child, exit_code, launched>>
    /\ LaunchFrame

\* cmd, output_dir = build_command(), and the lines printed up to the try
BuildAndAnnounce ==
    /\ lpc = "build"
    /\ \E timestamp \in Timestamps :
          /\ launched' = BuildCommand(settings, timestamp)
          /\ printed' = printed \o
                <<[line |-> "Running command:", cmd |-> launched'.cmd],
                  [line |-> "STARTING TRAINING"],
                  [line |-> "Output directory:", output_dir |-> launched'.output_dir]>>
    /\ lpc' = "run"
    /\ UNCHANGED <<child, exit_code>>
    /\ LaunchFrame

\* subprocess.run(cmd, check=True): the child ends with an exit status
ChildReturns ==
    /\ lpc = "run"
    /\ \E returncode \in ReturnCodes :
          child' = [kind |-> "returned", returncode |-> returncode]
    /\ lpc' = "ran"
    /\ UNCHANGED <<printed, exit_code, launched>>
    /\ LaunchFrame

\* subprocess.run(cmd, check=True): a keyboard interrupt arrives while the
\* child runs and subprocess.run raises it again
ChildInterrupted ==
    /\ lpc = "run"
    /\ child' = [kind |-> "interrupted", returncode |-> 0]
    /\ lpc' = "ran"
    /\ UNCHANGED <<printed, exit_code, launched>>
    /\ LaunchFrame

\* the child returned zero: the banner, and run_experiment returns
Completed ==
    /\ lpc = "ran"
    /\ child.kind = "returned"
    /\ child.returncode = 0
    /\ printed' = printed \o
          <<[line |-> "Training completed successfully!"],
            [line |-> "Results saved to:", output_dir |-> launched.output_dir]>>
    /\ exit_code' = 0
    /\ lpc' = "exited"
    /\ UNCHANGED <<child, launched>>
    /\ LaunchFrame

\* check=True raised CalledProcessError
Failed ==
    /\ lpc = "ran"
    /\ child.kind = "returned"
    /\ child.returncode # 0
    /\ printed' = Append(printed, [line |-> "Training failed with error code",
                                   returncode |-> child.returncode])
    /\ exit_code' = ExitOnFailure(child.returncode)
    /\ lpc' = "exited"
    /\ UNCHANGED <<child, launched>>
    /\ LaunchFrame

\* except KeyboardInterrupt
Interrupted ==
    /\ lpc = "ran"
    /\ child.kind = "interrupted"
    /\ printed' = Append(printed, [line |-> "Training interrupted by user"])
    /\ exit_code' = 1
    /\ lpc' = "exited"
    /\ UNCHANGED <<child, launched>>
    /\ LaunchFrame

LaunchInit ==
    /\ SplitIdle
    /\ RenameIdle
    /\ TrainIdle
    /\ OrgIdle
    /\ settings \in LauncherSettings
    /\ child = [kind |-> "none", returncode |-> 0]
    /\ lpc = "start"
    /\ printed = <<>>
    /\ exit_code = 0
    /\ launched = <<>>

LaunchNext ==
    \/ PrintConfig \/ BuildAndAnnounce \/ ChildReturns \/ ChildInterrupted
    \/ Completed \/ Failed \/ Interrupted

SpecLaunch == LaunchInit /\ [][LaunchNext]_vars

----------------------------------------------------------------------------
(* Properties of the launcher *)

Printed(line) == \E i \in 1..Len(printed) : printed[i].line = line

\* C18: when the launcher has ended, its exit code is 1 if the child returned
\* a non-zero exit status and if a keyboard interrupt arrived while the child
\* ran; and it has printed the completion banner, or ended with a code other
\* than 1, only if the child returned zero.
C18_LauncherExit ==
    lpc = "exited" =>
        /\ (child.kind = "returned" /\ child.returncode # 0) => exit_code = 1
        /\ child.kind = "interrupted" => exit_code = 1
        /\ (Printed("Training completed successfully!") \/ exit_code # 1)
              => (child.kind = "returned" /\ child.returncode = 0)

\* the launcher has ended after the child returned a status other than 0 and 1
C18_Witness ==
    /\ lpc = "exited"
    /\ child.kind = "returned"
    /\ child.returncode \notin {0, 1}
    /\ exit_code = 1
    /\ Printed("Training failed with error code")

====
